---------------------------- MODULE Spec2Model ----------------------------
(***************************************************************************)
(* adaops: model of min_utxo_math (src/src/adaops/tx.py), the manual       *)
(* minimum-UTXO calculation.  Strings are sequences of one-character       *)
(* strings, so that split / replace / filter / strip / hex-encoding are    *)
(* computed character by character as the Python code computes them.       *)
(***************************************************************************)
EXTENDS Integers, Sequences, FiniteSets, TLC

(***************************************************************************)
(* Bounds of the model.                                                    *)
(***************************************************************************)
\* largest number of asset entries in an output descriptor drawn by Init
MaxAssets == 2

(***************************************************************************)
(* Python values.                                                          *)
(***************************************************************************)
\* dict.get() of a missing key: None (kept apart from every natural number)
None == -1

Range(s) == { s[i] : i \in 1..Len(s) }

(***************************************************************************)
(* Characters and str methods.                                             *)
(***************************************************************************)
Plus  == "+"
Space == " "
Quote == "\""
Dot   == "."
Tab   == "\t"

\* characters str.strip() removes (those of them the model's alphabet holds)
Whitespace == { Space, Tab, "\n" }

HexDigits == <<"0","1","2","3","4","5","6","7","8","9","a","b","c","d","e","f">>

\* ord(c) for the characters of the model's alphabet (ASCII = one UTF-8 byte)
Ord(c) ==
    CASE c = Tab   -> 9
      [] c = Space -> 32
      [] c = Quote -> 34
      [] c = Plus  -> 43
      [] c = Dot   -> 46
      [] c \in {"0","1","2","3","4","5","6","7","8","9"} ->
            48 + (CHOOSE i \in 0..9 : HexDigits[i + 1] = c)
      [] c \in {"a","b","c","d","e","f"} ->
            97 + (CHOOSE i \in 0..5 : HexDigits[i + 11] = c)

\* str.split(sep) for a one-character separator
RECURSIVE Split(_, _)
Split(s, sep) ==
    IF \A i \in 1..Len(s) : s[i] # sep
    THEN << s >>
    ELSE LET i == CHOOSE k \in 1..Len(s) :
                      s[k] = sep /\ \A j \in 1..(k - 1) : s[j] # sep
         IN  << SubSeq(s, 1, i - 1) >> \o Split(SubSeq(s, i + 1, Len(s)), sep)

\* str.replace(c, "")
Remove(s, c) == SelectSeq(s, LAMBDA x : x # c)

\* list(filter(None, lst)): drops the empty strings
FilterNone(lst) == SelectSeq(lst, LAMBDA x : x # << >>)

\* str.strip()
RECURSIVE Strip(_)
Strip(s) ==
    IF s = << >> THEN s
    ELSE IF s[1] \in Whitespace THEN Strip(Tail(s))
    ELSE IF s[Len(s)] \in Whitespace THEN Strip(SubSeq(s, 1, Len(s) - 1))
    ELSE s

\* "".join(lst)
RECURSIVE Join(_)
Join(lst) == IF lst = << >> THEN << >> ELSE Head(lst) \o Join(Tail(lst))

\* two lowercase hex digits for one byte
HexByte(n) == << HexDigits[(n \div 16) + 1], HexDigits[(n % 16) + 1] >>

\* s.encode("utf-8").hex()
RECURSIVE EncodeHex(_)
EncodeHex(s) ==
    IF s = << >> THEN << >> ELSE HexByte(Ord(Head(s))) \o EncodeHex(Tail(s))

\* the orders in which iterating set(lst) can yield its elements
IterOrders(S) ==
    { o \in [1..Cardinality(S) -> S] : \A i, j \in 1..Cardinality(S) :
                                          o[i] = o[j] => i = j }

Max(a, b) == IF a >= b THEN a ELSE b

(***************************************************************************)
(* min_utxo_math: chain constants (tx.py 298-308).                         *)
(***************************************************************************)
k0_always_coinsize(era) == 2

\* coinSize: 0 in mary-era, 2 in alonzo-era
k0(era) == IF era = "alonzo" THEN 2 ELSE 0

k1 == 6
k2 == 12
k3 == 28
k4 == 8
utxoEntrySizeWithoutVal == 27

adaOnlyUTxOSize(era) == utxoEntrySizeWithoutVal + k0(era)

\* minUTXOValue after lines 310-314; None * int raises TypeError (no value)
minUTXOValue(protocol_params, era) ==
    IF era = "alonzo"
    THEN protocol_params.utxoCostPerWord * adaOnlyUTxOSize(era)
    ELSE protocol_params.minUTxOValue

(***************************************************************************)
(* min_utxo_math: the loop over the asset parts (tx.py 320-359).           *)
(***************************************************************************)
\* complete_asset_info
complete_asset_info(part) == FilterNone(Split(Remove(part, Quote), Space))

\* the asset name in hex: as given, or encoded when it is in ASCII format
asset_hash_hexname(assetname, hex_name) ==
    IF hex_name THEN assetname ELSE EncodeHex(assetname)

EmptyCollectors ==
    [ raised |-> "", pidCollector |-> << >>, assetsCollector |-> << >>,
      nameCollector |-> << >> ]

Collect_reset(acc, policy, hexname) ==
    [ raised |-> "",
      pidCollector |-> << policy >>,
      assetsCollector |-> << policy \o hexname >>,
      nameCollector |-> IF hexname # << >> THEN << hexname >> ELSE << >> ]

\* lines 354-357: one asset appended to the collectors
Collect(acc, policy, hexname) ==
    [ raised |-> "",
      pidCollector |-> Append(acc.pidCollector, policy),
      assetsCollector |-> Append(acc.assetsCollector, policy \o hexname),
      nameCollector |-> IF hexname # << >>
                        THEN Append(acc.nameCollector, hexname)
                        ELSE acc.nameCollector ]

\* the while loop, from idx on (1-based); an index past the end of a list
\* raises IndexError and ends the call
RECURSIVE CollectAssets(_, _, _, _)
CollectAssets(parts, idx, hex_name, acc) ==
    IF ~ (Len(parts) >= idx) THEN acc
    ELSE LET info == complete_asset_info(parts[idx])
         IN  IF Len(info) < 2 THEN [acc EXCEPT !.raised = "IndexError"]
             ELSE LET asset_hash_data_lst == Split(info[2], Dot)
                  IN  IF Len(asset_hash_data_lst) < 2
                      THEN [acc EXCEPT !.raised = "IndexError"]
                      ELSE CollectAssets(parts, idx + 1, hex_name,
                               Collect(acc, asset_hash_data_lst[1],
                                       asset_hash_hexname(asset_hash_data_lst[2],
                                                          hex_name)))

\* the collectors after the loop of a descriptor with more than two parts
Collectors(tx_out, hex_name) ==
    CollectAssets(Split(tx_out, Plus), 3, hex_name, EmptyCollectors)

\* set(nameCollector) of a call that gets as far as line 367, else empty
UniqueNames(tx_out, hex_name) ==
    IF Len(Split(tx_out, Plus)) > 2 /\ Collectors(tx_out, hex_name).raised = ""
    THEN Range(Collectors(tx_out, hex_name).nameCollector)
    ELSE { }

(***************************************************************************)
(* min_utxo_math: the arithmetic (tx.py 361-381).                          *)
(***************************************************************************)
numPIDs(pidCollector) == Cardinality(Range(pidCollector))

numAssets_no_set(assetsCollector) == Len(assetsCollector)

numAssets(assetsCollector) == Cardinality(Range(assetsCollector))

sumAssetNameLengths_hexchars(names) == Len(Strip(Join(names)))

\* names: set(nameCollector) in the order its iteration yields
sumAssetNameLengths(names) == Len(Strip(Join(names))) \div 2

roundupBytesToWords_floor(nAssets, sumLengths, nPIDs) ==
    (nAssets * k2 + sumLengths + nPIDs * k3) \div k4

\* the rounding with a whole word added instead of a word less one byte
roundupBytesToWords_whole_word(nAssets, sumLengths, nPIDs) ==
    (nAssets * k2 + sumLengths + nPIDs * k3 + k4) \div k4

roundupBytesToWords(nAssets, sumLengths, nPIDs) ==
    (nAssets * k2 + sumLengths + nPIDs * k3 + (k4 - 1)) \div k4

tokenBundleSize(words) == k1 + words

\* math.floor(a / b) is exact for the magnitudes of lovelace amounts
minAda(minUTXO, era, bundleSize) ==
    (minUTXO \div adaOnlyUTxOSize(era)) * (utxoEntrySizeWithoutVal + bundleSize)

NoFrame ==
    [ k0 |-> None, adaOnlyUTxOSize |-> None, minUTXOValue |-> None,
      numPIDs |-> None, numAssets |-> None, sumAssetNameLengths |-> None ]

Raise(exception, frame) == [ status |-> exception, value |-> None, frame |-> frame ]

\* The whole call.  protocol_file is what json.load reads at protocol_fpath;
\* names is the iteration order of set(nameCollector).  The result holds how
\* the call ended ("return" or the exception raised), the value returned and
\* the locals at that point.
min_utxo_math(tx_out, protocol_file, hex_name, era, names) ==
    IF ~ protocol_file.exists THEN Raise("FileNotFoundError", NoFrame)
    ELSE IF era = "alonzo" /\ protocol_file.utxoCostPerWord = None
    THEN Raise("TypeError", [NoFrame EXCEPT !.k0 = k0(era),
                                 !.adaOnlyUTxOSize = adaOnlyUTxOSize(era)])
    ELSE
    LET f1    == [NoFrame EXCEPT !.k0 = k0(era),
                                 !.adaOnlyUTxOSize = adaOnlyUTxOSize(era),
                                 !.minUTXOValue = minUTXOValue(protocol_file, era)]
        parts == Split(tx_out, Plus)
        acc   == IF Len(parts) > 2
                 THEN CollectAssets(parts, 3, hex_name, EmptyCollectors)
                 ELSE [EmptyCollectors EXCEPT !.raised = "UnboundLocalError"]
    IN  IF acc.raised # "" THEN Raise(acc.raised, f1)
        ELSE
        LET f2 == [f1 EXCEPT !.numPIDs = numPIDs(acc.pidCollector),
                             !.numAssets = numAssets(acc.assetsCollector),
                             !.sumAssetNameLengths = sumAssetNameLengths(names)]
            words == roundupBytesToWords(f2.numAssets, f2.sumAssetNameLengths,
                                         f2.numPIDs)
        IN  IF f2.minUTXOValue = None THEN Raise("TypeError", f2)
            ELSE [ status |-> "return",
                   value  |-> Max(f2.minUTXOValue,
                                  minAda(f2.minUTXOValue, era, tokenBundleSize(words))),
                   frame  |-> f2 ]

(***************************************************************************)
(* The caller's side: output descriptors and protocol-parameter files.     *)
(***************************************************************************)
Address  == <<"a","d","d","r">>
Lovelace == <<"1","0","0","0">>

Policy1 == <<"a","a">>
Policy2 == <<"b","b">>

NameEmpty  == << >>
Name8Bytes == <<"6","1","6","2","6","3","6","4","6","5","6","6","6","7","6","8">>
NameDotted == <<"6","1",".","6","2">>
NameTabbed == << Tab, Tab, Tab, Tab, Tab, Tab, Tab, Tab, "a", "b" >>
NameOdd    == <<"6">>

Quantities == { <<"1">>, <<"2">> }

Asset(q, p, d, n) == [ quantity |-> q, policy |-> p, dot |-> d, name |-> n ]

\* asset entries a caller puts into a descriptor: "quantity policyid.assetname",
\* and the two malformed shapes without a quantity and without a '.'
AssetEntries ==
    { Asset(<<"1">>, Policy1, TRUE, n) :
        n \in { NameEmpty, Name8Bytes, NameDotted, NameTabbed, NameOdd } }
    \cup { Asset(<<"1">>, Policy2, TRUE, Name8Bytes),
           Asset(<< >>, Policy1, TRUE, Name8Bytes),
           Asset(<<"1">>, Policy1, FALSE, << >>) }

Bundles == UNION { [1..n -> AssetEntries] : n \in 0..MaxAssets }

FormatAsset(e) ==
    e.quantity \o << Space >> \o e.policy
        \o (IF e.dot THEN << Dot >> \o e.name ELSE << >>)

RECURSIVE JoinAssets(_, _)
JoinAssets(texts, sep) ==
    IF Len(texts) = 1 THEN texts[1]
    ELSE texts[1] \o sep \o JoinAssets(Tail(texts), sep)

\* address+lovelace+"q pid.name + q pid.name" (quoted, as handed to the CLI)
\* or address+lovelace+q pid.name+q pid.name
FormatTxOut(bundle, quoted) ==
    LET texts == [ i \in 1..Len(bundle) |-> FormatAsset(bundle[i]) ]
    IN  IF bundle = << >> THEN Address \o << Plus >> \o Lovelace
        ELSE IF quoted
        THEN Address \o << Plus >> \o Lovelace \o << Plus, Quote >>
                 \o JoinAssets(texts, << Space, Plus, Space >>) \o << Quote >>
        ELSE Address \o << Plus >> \o Lovelace \o << Plus >>
                 \o JoinAssets(texts, << Plus >>)

\* what json.load reads from protocol_fpath, when the file exists
ProtocolFiles ==
    { [ exists |-> FALSE, minUTxOValue |-> None, utxoCostPerWord |-> None ] }
    \cup { [ exists |-> TRUE, minUTxOValue |-> m, utxoCostPerWord |-> 34482 ] :
             m \in { None, 26, 1000000 } }
    \cup { [ exists |-> TRUE, minUTxOValue |-> 1000000, utxoCostPerWord |-> None ] }

Eras == { "alonzo", "mary" }

(***************************************************************************)
(* State.                                                                  *)
(***************************************************************************)
VARIABLES
    bundle,         \* the asset entries the caller formats into tx_out
    quoted,         \* whether the asset part of tx_out is written in quotes
    tx_out,         \* argument tx_out
    protocol_file,  \* the protocol parameters file at argument protocol_fpath
    hex_name,       \* argument hex_name
    era,            \* argument era
    names,          \* the order in which set(nameCollector) was iterated
    result,         \* how the last call ended, its value and its locals
    rel,            \* how the last call's arguments relate to the call before
    prev            \* result, names and bundle of the call before

\* the rest of the library: the helpers of var.py and init_helpers.py, the
\* CLI wrapper and the functions that drive it
VARIABLES
    cardano_cli,    \* the CardanoCLI object adaops/__init__.py constructs
    processes,      \* the processes subprocess.Popen has run, in order
    clock,          \* what timer() returns now
    frame,          \* the function being called: its arguments and locals
    earlier,        \* the frame of the call before
    environ         \* os.environ: CARDANO_NODE_SOCKET_PATH, and whether the
                    \* path it names exists

vars == << bundle, quoted, tx_out, protocol_file, hex_name, era, names, result,
           rel, prev, cardano_cli, processes, clock, frame, earlier, environ >>

\* no library function has been called
Idle == [ fn |-> "none" ]

\* the library at rest, as min_utxo_math (which runs no process) leaves it
LibraryAtRest ==
    /\ cardano_cli = [ cardano_binary |-> <<"cardano-cli">>,
                       cardano_era |-> << >>,
                       use_legacy_commands |-> FALSE ]
    /\ processes = << >>
    /\ clock = 0
    /\ frame = Idle
    /\ earlier = Idle
    /\ environ = [ CARDANO_NODE_SOCKET_PATH |-> [ type |-> "str", chars |-> << "node.socket" >> ],
                   exists |-> TRUE ]

Pending == [ status |-> "pending", value |-> None, frame |-> NoFrame ]

NoCall == [ result |-> Pending, names |-> << >>, bundle |-> << >> ]

\* the orders of S that keep the relative order old has: within one
\* interpreter a key keeps its hash-table slot when other keys are added
SameProcessOrders(old, S) ==
    { o \in IterOrders(S) :
        \A i, j \in 1..Len(o) : \A a, b \in 1..Len(old) :
            (o[i] = old[a] /\ o[j] = old[b] /\ a < b) => i < j }

Init ==
    /\ bundle \in Bundles
    /\ quoted \in BOOLEAN
    /\ tx_out = FormatTxOut(bundle, quoted)
    /\ protocol_file \in ProtocolFiles
    /\ hex_name \in BOOLEAN
    /\ era \in Eras
    /\ names = << >>
    /\ result = Pending
    /\ rel = "none"
    /\ prev = NoCall
    /\ LibraryAtRest

\* one call of min_utxo_math on the descriptor of bundle b
Invoke(b, hex, order, relation) ==
    /\ bundle' = b
    /\ tx_out' = FormatTxOut(b, quoted)
    /\ hex_name' = hex
    /\ names' = order
    /\ result' = min_utxo_math(FormatTxOut(b, quoted), protocol_file, hex, era, order)
    /\ rel' = relation
    /\ prev' = [ result |-> result, names |-> names, bundle |-> bundle ]
    /\ UNCHANGED << quoted, protocol_file, era >>
    /\ UNCHANGED << cardano_cli, processes, clock, frame, earlier, environ >>

\* the first call, in a fresh interpreter: any iteration order
Call ==
    /\ rel = "none"
    /\ \E order \in IterOrders(UniqueNames(tx_out, hex_name)) :
          Invoke(bundle, hex_name, order, "call")

\* the same arguments again, in the same interpreter
CallAgain ==
    /\ rel = "call"
    /\ Invoke(bundle, hex_name, names, "again")

\* the same arguments again, in another interpreter (another hash seed)
CallInNewProcess ==
    /\ rel = "call"
    /\ \E order \in IterOrders(UniqueNames(tx_out, hex_name)) :
          Invoke(bundle, hex_name, order, "newprocess")

\* the descriptor with one of its (policy-id, asset-name) pairs declared
\* once more, with any quantity
CallWithDuplicate ==
    /\ rel = "call"
    /\ Len(bundle) < MaxAssets
    /\ \E i \in 1..Len(bundle) : \E q \in Quantities \cup { bundle[i].quantity } :
          LET b == Append(bundle, [bundle[i] EXCEPT !.quantity = q])
          IN  \E order \in SameProcessOrders(names,
                               UniqueNames(FormatTxOut(b, quoted), hex_name)) :
                 Invoke(b, hex_name, order, "duplicate")

\* the descriptor with one more asset entry
CallWithExtraAsset ==
    /\ rel = "call"
    /\ Len(bundle) < MaxAssets
    /\ \E e \in AssetEntries :
          LET b == Append(bundle, e)
          IN  \E order \in SameProcessOrders(names,
                               UniqueNames(FormatTxOut(b, quoted), hex_name)) :
                 Invoke(b, hex_name, order, "extra")

\* the descriptor of ASCII names, written with the names' hex encodings
\* and hex_name=True
CallWithHexNames ==
    /\ rel = "call"
    /\ ~ hex_name
    /\ LET b == [ i \in 1..Len(bundle) |->
                    [bundle[i] EXCEPT !.name = EncodeHex(bundle[i].name)] ]
       IN  \E order \in SameProcessOrders(names,
                            UniqueNames(FormatTxOut(b, quoted), TRUE)) :
              Invoke(b, TRUE, order, "hexnames")

Next ==
    \/ Call
    \/ CallAgain
    \/ CallInNewProcess
    \/ CallWithDuplicate
    \/ CallWithExtraAsset
    \/ CallWithHexNames

Spec == Init /\ [][Next]_vars

(***************************************************************************)
(* What the claims are stated over: the call has been made, and what the   *)
(* caller put into the descriptor.                                         *)
(***************************************************************************)
Called == result.status # "pending"

Returned == result.status = "return"

Delimiters == { Plus, Space, Quote, Dot }

IsHexString(s) ==
    /\ \A i \in 1..Len(s) : s[i] \in Range(HexDigits)
    /\ Len(s) % 2 = 0

\* 'quantity policyid.assetname': a quantity, one '.', a name free of the
\* descriptor's delimiters
WellShaped(e) ==
    /\ e.quantity # << >>
    /\ e.dot
    /\ Range(e.name) \cap Delimiters = { }

WellFormedAsset(e, hex) == WellShaped(e) /\ (hex => IsHexString(e.name))

WellFormedBundle(b, hex) == \A i \in 1..Len(b) : WellFormedAsset(b[i], hex)

\* the protocol parameter the era reads is in the file
ParamsPresent ==
    /\ protocol_file.exists
    /\ IF era = "alonzo" THEN protocol_file.utxoCostPerWord # None
                         ELSE protocol_file.minUTxOValue # None

\* the flat minimum-UTXO baseline
Baseline ==
    IF era = "alonzo" THEN protocol_file.utxoCostPerWord * 29
                      ELSE protocol_file.minUTxOValue

\* byte length of an asset name as the caller wrote it
ByteLength(name, hex) == IF hex THEN Len(name) \div 2 ELSE Len(name)

RECURSIVE SumByteLengths(_, _)
SumByteLengths(S, hex) ==
    IF S = { } THEN 0
    ELSE LET n == CHOOSE x \in S : TRUE
         IN  ByteLength(n, hex) + SumByteLengths(S \ { n }, hex)

DistinctPolicies(b) == { b[i].policy : i \in 1..Len(b) }
DistinctAssets(b)   == { << b[i].policy, b[i].name >> : i \in 1..Len(b) }
DistinctNames(b)    == { b[i].name : i \in 1..Len(b) }

ExpectedWords(b, hex) ==
    (Cardinality(DistinctAssets(b)) * 12 + SumByteLengths(DistinctNames(b), hex)
        + Cardinality(DistinctPolicies(b)) * 28 + 7) \div 8

ExpectedMinAda(b, hex) ==
    (Baseline \div (IF era = "alonzo" THEN 29 ELSE 27))
        * (27 + 6 + ExpectedWords(b, hex))

(***************************************************************************)
(* Claims.                                                                 *)
(***************************************************************************)

\* C1: for a descriptor with an empty asset bundle (at most two '+'-separated
\* parts) min_utxo_math returns normally and the result is the flat baseline.
\* The code raises UnboundLocalError at line 362 instead: the collectors are
\* bound only inside "if len(parts) > 2".
C1_EmptyBundleReturnsBaseline ==
    (Called /\ ParamsPresent /\ Len(Split(tx_out, Plus)) <= 2)
        => (Returned /\ result.value = Baseline)

\* C2: for a non-empty well-formed asset bundle the call returns
\* max(baseline, minAda), minAda = floor(minUTxOValue / adaOnlyUTxOSize)
\* * (27 + 6 + floor((numAssets*12 + sumAssetNameLengths + numPIDs*28 + 7) / 8))
\* over the distinct policy-ids, (policy-id, name) pairs and names; the result
\* is never below the baseline.
C2_ReturnsMaxOfBaselineAndMinAda ==
    (Called /\ ParamsPresent /\ bundle # << >> /\ WellFormedBundle(bundle, hex_name))
        => /\ Returned
           /\ result.value = Max(Baseline, ExpectedMinAda(bundle, hex_name))
           /\ result.value >= Baseline

C2_Witness ==
    /\ Called /\ ParamsPresent /\ WellFormedBundle(bundle, hex_name)
    /\ Cardinality(DistinctPolicies(bundle)) = 2
    /\ Cardinality(DistinctNames(bundle)) = 1
    /\ Returned
    /\ result.value > Baseline

\* C3: a descriptor that declares a (policy-id, asset-name) pair a second time,
\* with any quantity, gives the same numAssets, numPIDs, sumAssetNameLengths
\* and the same result as the descriptor declaring it once.
C3_DuplicateCountedOnce ==
    rel = "duplicate" => result = prev.result

C3_Witness ==
    /\ rel = "duplicate"
    /\ Returned
    /\ Len(bundle) = 2
    /\ bundle[2].quantity # bundle[1].quantity
    /\ result.frame.numAssets = 1
    /\ result.frame.numPIDs = 1
    /\ result.frame.sumAssetNameLengths = 8

\* C4: for every asset bundle, ASCII names with hex_name=False give the same
\* result as the names' hex encodings (two digits per byte) with
\* hex_name=True.  The code cuts an ASCII name at its first '.' (split(".")
\* keeps only the element after the policy-id), so the ASCII call counts
\* fewer name bytes than the hex call.
C4_HexAsciiEquivalence ==
    rel = "hexnames"
        => /\ result.status = prev.result.status
           /\ result.value = prev.result.value

\* C5: with the protocol parameters and the era fixed, adding an asset entry
\* to a non-empty bundle never lowers the returned value.
C5_AddingAssetNeverLowers ==
    (rel = "extra" /\ Returned /\ prev.result.status = "return")
        => result.value >= prev.result.value

C5_Witness ==
    /\ rel = "extra"
    /\ Returned
    /\ prev.result.status = "return"
    /\ Len(bundle) = 2
    /\ bundle[2].policy # bundle[1].policy
    /\ result.frame.numPIDs = prev.result.frame.numPIDs + 1
    /\ result.value > prev.result.value

\* C6: two calls with the same descriptor, protocol parameters, era and
\* hex_name return the same value, whatever the iteration order of the sets
\* of unique names.  With hex_name=True a name that is no hex string (C9) may
\* start or end with whitespace, and strip() of the joined set then removes a
\* different number of characters in a different iteration order.
C6_SameArgumentsSameResult ==
    rel \in { "again", "newprocess" }
        => /\ result.status = prev.result.status
           /\ result.value = prev.result.value

\* C7: era alonzo, utxoCostPerWord = 34482 (baseline 999978), one asset under
\* one policy-id with an 8-byte name and quantity 1: 1344798 lovelace.
C7_KnownValue ==
    (/\ Called
     /\ protocol_file.exists
     /\ era = "alonzo"
     /\ protocol_file.utxoCostPerWord = 34482
     /\ Len(bundle) = 1
     /\ WellFormedBundle(bundle, hex_name)
     /\ bundle[1].quantity = <<"1">>
     /\ ByteLength(bundle[1].name, hex_name) = 8)
        => /\ Returned
           /\ result.frame.minUTXOValue = 999978
           /\ result.value = 1344798
           /\ result.value = 34482 * (27 + 6 + ((12 + 8 + 28 + 7) \div 8))

C7_Witness ==
    /\ Called /\ protocol_file.exists /\ era = "alonzo"
    /\ protocol_file.utxoCostPerWord = 34482
    /\ hex_name
    /\ bundle = << Asset(<<"1">>, Policy1, TRUE, Name8Bytes) >>
    /\ result.value = 1344798

\* an asset entry that is not of the shape 'quantity policyid.assetname'
Malformed(e) ==
    \/ e.quantity = << >>
    \/ ~ e.dot
    \/ Dot \in Range(e.name)

\* C8: the call fails, and returns no value, for every descriptor with a
\* malformed asset part: the quantity missing, or a number of '.' between
\* policy-id and asset name other than one.  With two '.' the code takes the
\* text between them as the name and returns a value.
C8_MalformedAssetFails ==
    (Called /\ \E i \in 1..Len(bundle) : Malformed(bundle[i]))
        => ~ Returned

\* C9: with hex_name=True the call fails, and returns no value, when an
\* asset name is no decodable hex string (a non-hex character, or an odd
\* length).  The code never decodes the name: it only takes its length.
C9_UndecodableHexNameFails ==
    (/\ Called
     /\ hex_name
     /\ \A i \in 1..Len(bundle) : WellShaped(bundle[i])
     /\ \E j \in 1..Len(bundle) : ~ IsHexString(bundle[j].name))
        => ~ Returned

\* C10: with era 'alonzo' k0 = 2, adaOnlyUTxOSize = 29 and the baseline is
\* utxoCostPerWord * 29, whatever minUTxOValue is; with any other era k0 = 0,
\* adaOnlyUTxOSize = 27 and the baseline is the minUTxOValue parameter.
C10_EraSelectsConstants ==
    (Called /\ protocol_file.exists)
        => IF era = "alonzo"
           THEN /\ result.frame.k0 = 2
                /\ result.frame.adaOnlyUTxOSize = 29
                /\ protocol_file.utxoCostPerWord # None
                      => result.frame.minUTXOValue
                             = protocol_file.utxoCostPerWord * 29
           ELSE /\ result.frame.k0 = 0
                /\ result.frame.adaOnlyUTxOSize = 27
                /\ result.frame.minUTXOValue = protocol_file.minUTxOValue

C10_Witness ==
    /\ Called /\ protocol_file.exists
    /\ era = "alonzo"
    /\ protocol_file.minUTxOValue = 26
    /\ Returned
    /\ result.frame.k0 = 2
    /\ result.frame.minUTXOValue = 999978

(***************************************************************************)
(* The rest of the library.  A call ends by returning a value or by        *)
(* raising an exception; log holds the levels of the messages it logged.   *)
(***************************************************************************)
\* Python values that may be a string, None or an integer carry their type
PyStr(chars) == [ type |-> "str", chars |-> chars ]

PyNone == [ type |-> "NoneType" ]

PyInt(n) == [ type |-> "int", int |-> n ]

PyList(items) == [ type |-> "list", items |-> items ]

\* bool(value)
Truthy(value) ==
    CASE value.type = "str" -> value.chars # << >>
      [] value.type = "int" -> value.int # 0
      [] value.type = "list" -> value.items # << >>
      [] OTHER -> FALSE

Returns(value, log) == [ status |-> "return", value |-> value, log |-> log ]

Raises(exception, log) == [ status |-> exception, value |-> PyNone, log |-> log ]

(***************************************************************************)
(* var.py: h2a                                                             *)
(***************************************************************************)
HexValue(c) == CHOOSE n \in 0..15 : HexDigits[n + 1] = c

\* chr() on the code points of the characters Ord knows
Chr(n) == CHOOSE c \in { Tab, Space, Quote, Plus, Dot } \cup Range(HexDigits) : Ord(c) = n

\* binascii.unhexlify: an odd number of digits or a character that is no
\* hex digit raises binascii.Error, otherwise one byte per two digits
RECURSIVE HexPairs(_)
HexPairs(hex_s) ==
    IF hex_s = << >> THEN << >>
    ELSE << 16 * HexValue(hex_s[1]) + HexValue(hex_s[2]) >>
             \o HexPairs(SubSeq(hex_s, 3, Len(hex_s)))

unhexlify(hex_s) ==
    IF Len(hex_s) % 2 # 0 \/ \E i \in 1..Len(hex_s) : hex_s[i] \notin Range(HexDigits)
    THEN [ error |-> TRUE, bytes |-> << >> ]
    ELSE [ error |-> FALSE, bytes |-> HexPairs(hex_s) ]

\* bytes.decode(): a byte below 0x80 is its ASCII character, a byte from
\* 0xf8 up starts no UTF-8 sequence and raises UnicodeDecodeError
decode(bytes) ==
    IF \E i \in 1..Len(bytes) : bytes[i] >= 248
    THEN [ error |-> TRUE, chars |-> << >> ]
    ELSE [ error |-> FALSE, chars |-> [ i \in 1..Len(bytes) |-> Chr(bytes[i]) ] ]

h2a(hex_s) ==
    LET log == IF Len(hex_s) % 2 # 0 THEN << "warning" >> ELSE << >>
        raw == unhexlify(hex_s)
    IN  IF raw.error THEN Raises("binascii.Error", log)
        ELSE IF decode(raw.bytes).error THEN Raises("UnicodeDecodeError", log)
        ELSE Returns(PyStr(decode(raw.bytes).chars), log)

\* the hex strings h2a is called on
HexStrings ==
    { << >>, <<"6","1">>, <<"6","1","6","2">>, <<"2","0","3","9">>,
      <<"6">>, <<"6","1","6">>, <<"6","g">>, <<"f","f">> }

(***************************************************************************)
(* var.py: get_utxo_with_enough_balance, combine_utxo_balance              *)
(***************************************************************************)
\* a UTXO map as get_balances returns it: the keys "hash#index" in the
\* dict's order, each with its balance
MaxUtxos == 2

UtxoKeys == { << hash, "#", idx >> : hash \in { "tx1", "tx2" }, idx \in { "0", "1" } }

UtxosMaps ==
    UNION { { m \in [1..n -> [ utxo : UtxoKeys, lovelace : { 1, 5, 10 } ]] :
                \A i, j \in 1..n : m[i].utxo = m[j].utxo => i = j } :
            n \in 0..MaxUtxos }

\* utxos_map[utxo]["lovelace"]
LovelaceOf(utxos_map, utxo) ==
    utxos_map[CHOOSE i \in 1..Len(utxos_map) : utxos_map[i].utxo = utxo].lovelace

\* the while loop: utxos is what list.pop() has left, utxo the key popped
RECURSIVE PopUntilEnough(_, _, _, _)
PopUntilEnough(utxos_map, amount, utxos, utxo) ==
    IF LovelaceOf(utxos_map, utxo) < amount
    THEN IF utxos = << >>
         THEN Returns(PyNone, << "warning", "warning" >>)
         ELSE PopUntilEnough(utxos_map, amount,
                             SubSeq(utxos, 1, Len(utxos) - 1), utxos[Len(utxos)])
    ELSE Returns(PyStr(utxo), << >>)

get_utxo_with_enough_balance(utxos_map, amount) ==
    LET utxos == [ i \in 1..Len(utxos_map) |-> utxos_map[i].utxo ]
    IN  IF utxos = << >> THEN Raises("IndexError", << >>)
        ELSE PopUntilEnough(utxos_map, amount,
                            SubSeq(utxos, 1, Len(utxos) - 1), utxos[Len(utxos)])

\* the balance dicts combine_utxo_balance is called on, as query_utxo and
\* get_balances build them: "lovelace" and "tokens" are both optional
MaxDicts == 2

EmptyDict == [ key \in {} |-> 0 ]

BalanceDicts ==
    { EmptyDict,
      [ lovelace |-> 5 ],
      [ lovelace |-> 5,
        tokens |-> [ policy1 |-> [ tokenA |-> 1, tokenB |-> 2 ] ] ],
      [ lovelace |-> 2,
        tokens |-> [ policy1 |-> [ tokenA |-> 3 ], policy2 |-> [ tokenA |-> 7 ] ] ],
      [ tokens |-> [ policy2 |-> EmptyDict ] ],
      [ lovelace |-> 0, tokens |-> [ policy1 |-> [ tokenB |-> 0 ] ] ] }

\* merged[policy][token] = amount, on defaultdicts
AddAmount_overwrite(merged, policy, token, amount) ==
    LET tokens == IF policy \in DOMAIN merged THEN merged[policy] ELSE EmptyDict
    IN  [ p \in DOMAIN merged \cup { policy } |->
            IF p = policy
            THEN [ t \in DOMAIN tokens \cup { token } |->
                     IF t = token THEN amount ELSE tokens[t] ]
            ELSE merged[p] ]

\* merged[policy][token] += amount, on defaultdicts
AddAmount(merged, policy, token, amount) ==
    LET tokens == IF policy \in DOMAIN merged THEN merged[policy] ELSE EmptyDict
        old    == IF token \in DOMAIN tokens THEN tokens[token] ELSE 0
    IN  [ p \in DOMAIN merged \cup { policy } |->
            IF p = policy
            THEN [ t \in DOMAIN tokens \cup { token } |->
                     IF t = token THEN old + amount ELSE tokens[t] ]
            ELSE merged[p] ]

\* for token, amount in tokens.items()
RECURSIVE MergeTokens(_, _, _)
MergeTokens(merged, policy, tokens) ==
    IF DOMAIN tokens = {} THEN merged
    ELSE LET token == CHOOSE t \in DOMAIN tokens : TRUE
         IN  MergeTokens(AddAmount(merged, policy, token, tokens[token]), policy,
                         [ t \in DOMAIN tokens \ { token } |-> tokens[t] ])

\* for policy, tokens in d["tokens"].items()
RECURSIVE MergePolicies(_, _)
MergePolicies(merged, policies) ==
    IF DOMAIN policies = {} THEN merged
    ELSE LET policy == CHOOSE p \in DOMAIN policies : TRUE
         IN  MergePolicies(MergeTokens(merged, policy, policies[policy]),
                           [ p \in DOMAIN policies \ { policy } |-> policies[p] ])

\* for d in dicts
RECURSIVE MergeDicts(_, _, _)
MergeDicts(dicts, merged, total_lovelace) ==
    IF dicts = << >>
    THEN [ lovelace |-> total_lovelace, tokens |-> merged ]
    ELSE LET d == Head(dicts)
         IN  MergeDicts(Tail(dicts),
                 IF "tokens" \in DOMAIN d THEN MergePolicies(merged, d.tokens)
                 ELSE merged,
                 IF "lovelace" \in DOMAIN d THEN total_lovelace + d.lovelace
                 ELSE total_lovelace)

combine_utxo_balance(dicts) == Returns(MergeDicts(dicts, EmptyDict, 0), << >>)

(***************************************************************************)
(* init_helpers.py: net_arg, get_legacy_era_arg                            *)
(***************************************************************************)
NETWORK_IDS ==
    [ id \in { PyStr(<<"mainnet">>), PyStr(<<"1">>), PyStr(<<"2">>) } |->
        CASE id = PyStr(<<"mainnet">>) ->
                 [ name |-> "mainnet", type |-> "mainnet", network_magic |-> 764824073 ]
          [] id = PyStr(<<"1">>) ->
                 [ name |-> "preprod", type |-> "testnet", network_magic |-> 1 ]
          [] id = PyStr(<<"2">>) ->
                 [ name |-> "preview", type |-> "testnet", network_magic |-> 2 ] ]

\* NETWORK_IDS.get(net, <the mainnet entry>)
net_arg_unknown_is_mainnet(net) ==
    LET network == IF net \in DOMAIN NETWORK_IDS THEN NETWORK_IDS[net]
                   ELSE NETWORK_IDS[PyStr(<<"mainnet">>)]
    IN  IF network.type = "testnet"
        THEN Returns(<< PyStr(<<"--testnet-magic">>), PyInt(network.network_magic) >>, << >>)
        ELSE Returns(<< PyStr(<<"--mainnet">>) >>, << >>)

net_arg(net) ==
    IF net \notin DOMAIN NETWORK_IDS THEN Raises("ValueError", << >>)
    ELSE LET network == NETWORK_IDS[net]
         IN  IF network.type = "testnet"
             THEN Returns(<< PyStr(<<"--testnet-magic">>),
                             PyInt(network.network_magic) >>, << >>)
             ELSE Returns(<< PyStr(<<"--mainnet">>) >>, << >>)

\* the values net_arg is called on: str(CARDANO_NODE_NETWORK_ID) and others
NetworkIds ==
    { PyStr(<<"mainnet">>), PyStr(<<"1">>), PyStr(<<"2">>), PyStr(<<"0">>),
      PyStr(<<"3">>), PyStr(<< >>), PyStr(<<"Mainnet">>), PyStr(<<"preprod">>),
      PyStr(<<"preview">>), PyStr(<<"764824073">>), PyStr(<<"testnet">>),
      PyInt(1), PyInt(2), PyNone }

\* str.lower() on the letters the eras of the model are written with
lower(s) ==
    [ i \in 1..Len(s) |->
        CASE s[i] = "A" -> "a" [] s[i] = "B" -> "b" [] s[i] = "C" -> "c"
          [] s[i] = "M" -> "m" [] s[i] = "Y" -> "y" [] OTHER -> s[i] ]

legacy_eras_list ==
    << <<"b","y","r","o","n">>, <<"s","h","e","l","l","e","y">>,
       <<"a","l","l","e","g","r","a">>, <<"m","a","r","y">>,
       <<"a","l","o","n","z","o">>, <<"b","a","b","b","a","g","e">> >>

\* eras_legacy_args_map.get(key, None)
eras_legacy_args_map(key) ==
    IF key \in Range(legacy_eras_list)
    THEN PyStr(<<"-","-">> \o key \o <<"-","e","r","a">>)
    ELSE PyNone

get_legacy_era_arg(cardano_era, use_legacy_commands) ==
    IF ~ use_legacy_commands THEN Returns(PyStr(<< >>), << >>)
    ELSE LET _cardano_era == IF cardano_era.type = "str" THEN lower(cardano_era.chars)
                             ELSE legacy_eras_list[6]
         IN  IF _cardano_era = << >>
             THEN Returns(eras_legacy_args_map(_cardano_era), << "info" >>)
             ELSE IF _cardano_era \notin Range(legacy_eras_list)
             THEN Raises("ValueError", << "error" >>)
             ELSE IF cardano_era.type # "str"
             THEN Raises("AttributeError", << >>)
             ELSE Returns(eras_legacy_args_map(lower(cardano_era.chars)), << >>)

\* the values of CARDANO_ERA the function is called on
CardanoEras ==
    { PyNone, PyStr(<< >>), PyStr(<<"c","o","n","w","a","y">>),
      PyStr(<<"C","o","n","w","a","y">>), PyStr(<<"B","a","b","b","a","g","e">>),
      PyStr(<<"M","A","R","Y">>) }
        \cup { PyStr(e) : e \in Range(legacy_eras_list) }

(***************************************************************************)
(* wrapper.py: CardanoCLI.run.  A string is the sequence of its pieces of   *)
(* text, a command the sequence of its argument strings.                   *)
(***************************************************************************)
\* what subprocess pipes hold when Popen is not given text=True
PyBytes(chars) == [ type |-> "bytes", chars |-> chars ]

\* str(arg)
RECURSIVE str(_)
str(arg) ==
    CASE arg.type = "str" -> arg.chars
      [] arg.type = "int" ->
            IF arg.int < 10 THEN << HexDigits[arg.int + 1] >>
            ELSE str(PyInt(arg.int \div 10)) \o << HexDigits[(arg.int % 10) + 1] >>
      [] OTHER -> << "None" >>

\* the CardanoCLI objects the library is used with
CardanoClis ==
    [ cardano_binary : { <<"cardano-cli">> },
      cardano_era : { << >>, <<"c","o","n","w","a","y">>, <<"C","o","n","w","a","y">> },
      use_legacy_commands : BOOLEAN ]

\* command_group with the test of use_legacy_commands made first
command_group_legacy_first(self, cmd_group) ==
    IF self.use_legacy_commands \/ self.cardano_era = << >> THEN << << "legacy" >> >>
    ELSE IF Truthy(cmd_group) THEN << cmd_group.chars >>
    ELSE << lower(self.cardano_era) >>

command_group(self, cmd_group) ==
    IF Truthy(cmd_group) THEN << cmd_group.chars >>
    ELSE IF self.use_legacy_commands \/ self.cardano_era = << >> THEN << << "legacy" >> >>
    ELSE << lower(self.cardano_era) >>

\* what the process started by Popen ends with: exit code and the two pipes
Exits ==
    { [ rc |-> 0, stdout |-> PyBytes(<< "{\"slot\": 5, \"epoch\": 1}" >>),
        stderr |-> PyBytes(<< >>) ],
      [ rc |-> 1, stdout |-> PyBytes(<< >>),
        stderr |-> PyBytes(<< "MuxError", " ", "bearer closed", "\n" >>) ],
      [ rc |-> 1, stdout |-> PyBytes(<< >>),
        stderr |-> PyBytes(<< "cardano-cli: Network.Socket.connect: <socket: 11>: does not exist (Connection refused)", "\n" >>) ],
      [ rc |-> 1, stdout |-> PyBytes(<< >>),
        stderr |-> PyBytes(<< "Command failed", "\n" >>) ] }

\* run(*args, cmd_group=cmd_group, **kwargs): the process it starts and the
\* dict it returns, when the process ends with exit
run(self, args, cmd_group, kwargs, exit) ==
    LET command == << self.cardano_binary >> \o command_group(self, cmd_group)
                       \o [ i \in 1..Len(args) |-> str(args[i]) ]
    IN  [ process |-> [ command |-> command, kwargs |-> kwargs, rc |-> exit.rc,
                        stdout |-> exit.stdout, stderr |-> exit.stderr ],
          result  |-> [ stdout |-> exit.stdout, stderr |-> exit.stderr,
                        rc |-> exit.rc, cmd |-> JoinAssets(command, << Space >>),
                        popen_args |-> kwargs ] ]

\* the arguments run is called with
RunArgs ==
    { << >>,
      << PyStr(<<"query">>), PyStr(<<"tip">>), PyStr(<<"--mainnet">>) >>,
      << PyStr(<<"query">>), PyStr(<<"tip">>), PyStr(<<"--testnet-magic">>), PyInt(1) >>,
      << PyStr(<<"--testnet-magic">>), PyInt(42), PyStr(<<"query">>) >> }

CmdGroups == { PyNone, PyStr(<< >>), PyStr(<<"debug">>) }

(***************************************************************************)
(* governance.py, certs.py: generate_vote_delegation_cert                  *)
(***************************************************************************)
\* drep_action_arg with the three tests made in the opposite order
drep_action_arg_drepid_last(always_abstain, always_no_confidence, drepid) ==
    LET abstain == IF always_abstain THEN << "--always-abstain" >> ELSE << >>
        no_confidence == IF always_no_confidence THEN << "--always-no-confidence" >>
                         ELSE abstain
    IN  IF Truthy(drepid) THEN << "--drep-key-hash", Space >> \o drepid.chars
        ELSE no_confidence

\* drep_action_arg after the three if statements, each overwriting it
drep_action_arg(always_abstain, always_no_confidence, drepid) ==
    LET drep == IF Truthy(drepid) THEN << "--drep-key-hash", Space >> \o drepid.chars
                ELSE << >>
        no_confidence == IF always_no_confidence THEN << "--always-no-confidence" >>
                         ELSE drep
    IN  IF always_abstain THEN << "--always-abstain" >> ELSE no_confidence

\* the call, when the process it may start ends with exit: the processes
\* started and how the call ends
generate_vote_delegation_cert(self, stake_vkey, output_name, cwd, always_abstain, always_no_confidence, drepid, exit) ==
    IF ~ (always_abstain \/ always_no_confidence \/ Truthy(drepid))
    THEN [ started |-> << >>, outcome |-> Raises("ValueError", << "error" >>) ]
    ELSE LET target == Split(drep_action_arg(always_abstain, always_no_confidence,
                                             drepid), Space)
             args == << PyStr(<< "stake-address" >>),
                        PyStr(<< "vote-delegation-certificate" >>),
                        PyStr(<< "--stake-verification-key-file" >>), stake_vkey >>
                       \o [ i \in 1..Len(target) |-> PyStr(target[i]) ]
                       \o << PyStr(<< "--out-file" >>), output_name >>
             ran == run(self, args, PyNone, [ cwd |-> cwd ], exit)
         IN  [ started |-> << ran.process >>,
               outcome |-> IF ran.result.rc # 0
                           THEN Raises("BadCmd", << "error", "error", "error" >>)
                           ELSE Returns(PyStr(str(cwd) \o << "/" >> \o output_name.chars),
                                        << >>) ]

\* the values of drepid: not given, empty, a DRep key hash
DrepIds == { PyNone, PyStr(<< >>), PyStr(<< "drep1" >>) }

(***************************************************************************)
(* var.py: get_current_tip                                                 *)
(***************************************************************************)
MaxRetries == 2

\* value.startswith(prefix): bytes take only a bytes prefix
startswith(value, prefix) ==
    IF value.type # prefix.type THEN [ error |-> TRUE, found |-> FALSE ]
    ELSE [ error |-> FALSE,
           found |-> /\ Len(value.chars) >= Len(prefix.chars)
                     /\ SubSeq(value.chars, 1, Len(prefix.chars)) = prefix.chars ]

\* json.loads on the texts the model's processes write
json_loads(text) ==
    IF text.chars = << "{\"slot\": 5, \"epoch\": 1}" >>
    THEN [ error |-> FALSE, value |-> [ slot |-> 5, epoch |-> 1 ] ]
    ELSE IF text.chars = << "{}" >> THEN [ error |-> FALSE, value |-> EmptyDict ]
    ELSE [ error |-> TRUE, value |-> EmptyDict ]

ConnectionRefused ==
    << "cardano-cli: Network.Socket.connect: <socket: 11>: does not exist (Connection refused)" >>

\* one pass of the while loop, from the locals in f and the dict that
\* cardano_cli.run has returned
tip_loop_body(f, returned) ==
    LET entered == [ f EXCEPT !._retries = f._retries - 1, !.result = returned ]
        err_msg == [ returned.stderr EXCEPT !.chars = Strip(returned.stderr.chars) ]
        mux     == startswith(err_msg, PyStr(<< "MuxError" >>))
    IN  IF returned.rc = 0 THEN [ entered EXCEPT !.exec_success = TRUE ]
        ELSE IF mux.error
        THEN [ entered EXCEPT !.status = "TypeError", !.log = << "warning" >> ]
        ELSE IF mux.found
        THEN [ entered EXCEPT !.log = f.log \o << "warning", "warning", "warning" >> ]
        ELSE IF err_msg = PyStr(ConnectionRefused)
        THEN [ entered EXCEPT !.status = "NodeDown",
                              !.log = f.log \o << "warning", "error", "error" >> ]
        ELSE [ entered EXCEPT !.status = "BadCmd",
                              !.log = f.log \o << "warning", "error", "error" >> ]

\* the statements after the loop
tip_after_loop(f) ==
    IF "stdout" \notin DOMAIN f.result THEN [ f EXCEPT !.status = "KeyError" ]
    ELSE LET response_dict == json_loads(f.result.stdout)
         IN  IF response_dict.error THEN [ f EXCEPT !.status = "JSONDecodeError" ]
             ELSE IF f.item = "all"
             THEN [ f EXCEPT !.status = "return",
                             !.value = [ json |-> f.return_json,
                                         item |-> response_dict.value ] ]
             ELSE IF f.item \notin DOMAIN response_dict.value
             THEN [ f EXCEPT !.status = "KeyError", !.log = f.log \o << "error" >> ]
             ELSE [ f EXCEPT !.status = "return",
                             !.value = [ json |-> f.return_json,
                                         item |-> response_dict.value[f.item] ] ]

(***************************************************************************)
(* tx.py: wait_for_tx                                                      *)
(***************************************************************************)
MaxTimeout == 2

\* one pass of the while loop with the clock at now: the locals in f, the
\* map utxos that get_balances returns if it is called, and passed, the
\* seconds the query and time.sleep(1) take together.  polled keeps, for
\* every balance query, the seconds from the call's start to the loop
\* check before it.
wait_loop_body(f, now, utxos, passed) ==
    IF (f.end - f.start) >= f.timeout
    THEN [ f EXCEPT !.status = "return", !.timeouted = TRUE,
                    !.log = f.log \o << "warning" >> ]
    ELSE LET asked == [ f EXCEPT !.polled = Append(f.polled, now - f.start) ]
         IN  IF \E i \in 1..Len(utxos) : Split(utxos[i].utxo, "#")[1] = f.tx_id
             THEN [ asked EXCEPT !.status = "return", !.tx_arrived = TRUE,
                                 !.log = f.log \o << "info" >> ]
             ELSE [ asked EXCEPT !.end = now + passed ]


(***************************************************************************)
(* certs.py: generate_pool_reg_cert                                        *)
(***************************************************************************)
MaxRelays == 2

\* final_relays_list with the port given to the IPv4 relays only
final_relays_list_port_for_ipv4(relay_port, relays_ipv4_list, relays_dns_list) ==
    LET pool_ipv4_relays ==
            [ i \in 1..Len(relays_ipv4_list.items) |->
                << "--pool-relay-ipv4", Space >> \o str(relays_ipv4_list.items[i])
                   \o << Space, "--pool-relay-port", Space >> \o str(relay_port) ]
        pool_dns_relays ==
            [ i \in 1..Len(relays_dns_list.items) |->
                << "--single-host-pool-relay", Space >> \o str(relays_dns_list.items[i]) ]
        relays == pool_ipv4_relays \o pool_dns_relays
    IN  IF relays = << >> THEN << >> ELSE JoinAssets(relays, << Space >>)

\* final_relays_list: one f-string for each relay, joined by spaces
final_relays_list(relay_port, relays_ipv4_list, relays_dns_list) ==
    LET pool_ipv4_relays ==
            [ i \in 1..Len(relays_ipv4_list.items) |->
                << "--pool-relay-ipv4", Space >> \o str(relays_ipv4_list.items[i])
                   \o << Space, "--pool-relay-port", Space >> \o str(relay_port) ]
        pool_dns_relays ==
            [ i \in 1..Len(relays_dns_list.items) |->
                << "--single-host-pool-relay", Space >> \o str(relays_dns_list.items[i])
                   \o << Space, "--pool-relay-port", Space >> \o str(relay_port) ]
        relays == pool_ipv4_relays \o pool_dns_relays
    IN  IF relays = << >> THEN << >> ELSE JoinAssets(relays, << Space >>)

\* owners_stake_vkeys_args: one f-string for each owner, joined by spaces
owners_stake_vkeys_args(owners_stake_vkeys_list) ==
    LET owners == [ i \in 1..Len(owners_stake_vkeys_list.items) |->
                      << "--pool-owner-stake-verification-key-file", Space >>
                         \o str(owners_stake_vkeys_list.items[i]) ]
    IN  IF owners = << >> THEN << >> ELSE JoinAssets(owners, << Space >>)

\* the call, when the process it may start ends with exit: the processes
\* started and how the call ends
generate_pool_reg_cert(self, owners_stake_vkeys_list, metadata_url, relay_port, relays_ipv4_list, relays_dns_list, cwd, exit) ==
    LET ipv4 == IF relays_ipv4_list = PyNone THEN PyList(<< >>) ELSE relays_ipv4_list
        dns  == IF relays_dns_list = PyNone THEN PyList(<< >>) ELSE relays_dns_list
    IN  IF Len(metadata_url.chars) > 64
        THEN [ started |-> << >>, outcome |-> Raises("ValueError", << "error" >>) ]
        ELSE IF owners_stake_vkeys_list.type # "list"
        THEN [ started |-> << >>, outcome |-> Raises("ValueError", << "error" >>) ]
        ELSE IF ~ Truthy(dns) /\ ~ Truthy(ipv4)
        THEN [ started |-> << >>, outcome |-> Raises("RuntimeError", << "error" >>) ]
        ELSE LET owners == Split(owners_stake_vkeys_args(owners_stake_vkeys_list), Space)
                 relays == Split(final_relays_list(relay_port, ipv4, dns), Space)
                 args == << PyStr(<< "stake-pool" >>),
                            PyStr(<< "registration-certificate" >>),
                            PyStr(<< "--cold-verification-key-file" >>),
                            PyStr(<< "cold.vkey" >>),
                            PyStr(<< "--vrf-verification-key-file" >>),
                            PyStr(<< "vrf.vkey" >>),
                            PyStr(<< "--pool-pledge" >>), PyInt(500),
                            PyStr(<< "--pool-cost" >>), PyInt(340),
                            PyStr(<< "--pool-margin" >>), PyInt(0),
                            PyStr(<< "--pool-reward-account-verification-key-file" >>),
                            PyStr(<< "stake.vkey" >>),
                            PyStr(<< "--metadata-url" >>), metadata_url,
                            PyStr(<< "--metadata-hash" >>), PyStr(<< "c0ffee" >>) >>
                           \o [ i \in 1..Len(owners) |-> PyStr(owners[i]) ]
                           \o [ i \in 1..Len(relays) |-> PyStr(relays[i]) ]
                           \o net_arg(PyStr(<< "mainnet" >>)).value
                           \o << PyStr(<< "--out-file" >>),
                                 PyStr(<< "pool-registration.cert" >>) >>
                 ran == run(self, args, PyNone, [ cwd |-> cwd ], exit)
             IN  [ started |-> << ran.process >>,
                   outcome |-> IF ran.result.rc # 0
                               THEN Raises("BadCmd", << "error", "error", "error" >>)
                               ELSE Returns(PyStr(str(cwd) \o << "/" >>
                                                  \o << "pool-registration.cert" >>),
                                            << >>) ]

\* metadata_url: empty, of 64 characters, of 65 characters
MetadataUrls == { PyStr([ i \in 1..n |-> "u" ]) : n \in { 0, 64, 65 } }

\* owners_stake_vkeys_list: a list of paths, or one path that is not in a list
OwnersLists ==
    { PyList(<< PyStr(<< "owner.vkey" >>) >>),
      PyList(<< PyStr(<< "owner.vkey" >>), PyStr(<< "owner2.vkey" >>) >>),
      PyStr(<< "owner.vkey" >>) }

\* a relays argument: omitted, or a list of up to MaxRelays of the relays
RelaysLists(relays) ==
    { PyNone } \cup { PyList(items) : items \in UNION { [1..n -> relays] : n \in 0..MaxRelays } }

(***************************************************************************)
(* var.py, tx.py, pool.py: the operations that talk to the node            *)
(***************************************************************************)
\* os.environ as far as the library reads it: the variable unset, empty,
\* naming a path that does not exist, naming the node's socket
Environs ==
    { [ CARDANO_NODE_SOCKET_PATH |-> PyNone, exists |-> FALSE ],
      [ CARDANO_NODE_SOCKET_PATH |-> PyStr(<< >>), exists |-> FALSE ],
      [ CARDANO_NODE_SOCKET_PATH |-> PyStr(<< "node.socket" >>), exists |-> FALSE ],
      [ CARDANO_NODE_SOCKET_PATH |-> PyStr(<< "node.socket" >>), exists |-> TRUE ] }

check_socket_env_var(env) ==
    LET socket_path_val == env.CARDANO_NODE_SOCKET_PATH
    IN  IF ~ Truthy(socket_path_val) THEN Raises("RuntimeError", << "error", "error" >>)
        ELSE IF ~ env.exists THEN Raises("RuntimeError", << "error" >>)
        ELSE Returns([ type |-> "bool", bool |-> TRUE ], << >>)

\* check_file_exists: the resolved path, or FileNotFoundError
check_file_exists(file) ==
    IF ~ file.exists THEN Raises("FileNotFoundError", << "error" >>)
    ELSE Returns(PyStr(<< "/work", "/" >> \o file.fpath.chars), << >>)

\* the file an operation is pointed at, there or not
Files(fpath) == { [ fpath |-> PyStr(fpath), exists |-> there ] : there \in BOOLEAN }

\* UTXO_REGEX.fullmatch(utxo): 64 hex digits, #, digits
validate_utxo(utxo) ==
    /\ Len(utxo.chars) > 65
    /\ \A i \in 1..64 : utxo.chars[i] \in Range(HexDigits) \cup { "A", "B", "C", "D", "E", "F" }
    /\ utxo.chars[65] = "#"
    /\ \A i \in 66..Len(utxo.chars) : utxo.chars[i] \in Range(SubSeq(HexDigits, 1, 10))

\* a UTXO in the utxo#idx format, a hash without its index, an empty string
Utxos == { PyStr([ i \in 1..64 |-> "a" ] \o << "#", "0" >>),
           PyStr([ i \in 1..64 |-> "a" ]), PyStr(<< >>) }

\* the exits of a query: those of Exits and one with an empty JSON object
QueryExits == Exits \cup { [ rc |-> 0, stdout |-> PyBytes(<< "{}" >>), stderr |-> PyBytes(<< >>) ] }

NET_ARG == net_arg(PyStr(<< "mainnet" >>)).value

get_protocol_params(env, self, exit) ==
    LET socket == check_socket_env_var(env)
        ran == run(self, << PyStr(<< "query" >>), PyStr(<< "protocol-parameters" >>) >>
                         \o NET_ARG, PyNone, EmptyDict, exit)
        params == json_loads(ran.result.stdout)
    IN  IF socket.status # "return" THEN [ started |-> << >>, outcome |-> socket ]
        ELSE [ started |-> << ran.process >>,
               outcome |-> IF params.error THEN Raises("RuntimeError", << "error" >>)
                           ELSE Returns(params.value, << >>) ]

query_utxo(env, self, utxo, exit) ==
    LET socket == check_socket_env_var(env)
        ran == run(self, << PyStr(<< "query" >>), PyStr(<< "utxo" >>),
                            PyStr(<< "--tx-in" >>), utxo >> \o NET_ARG
                         \o << PyStr(<< "--output-json" >>) >>, PyNone, EmptyDict, exit)
        utxo_balance == json_loads(ran.result.stdout)
    IN  IF socket.status # "return" THEN [ started |-> << >>, outcome |-> socket ]
        ELSE IF ~ validate_utxo(utxo)
        THEN [ started |-> << >>, outcome |-> Raises("ValueError", << >>) ]
        ELSE [ started |-> << ran.process >>,
               outcome |->
                   IF ran.result.rc # 0
                   THEN Raises("BadCmd", << "error", "error", "error" >>)
                   ELSE IF utxo_balance.error THEN Raises("ValueError", << "error" >>)
                   ELSE IF utxo_balance.value # EmptyDict
                   THEN Raises("KeyError", << >>)
                   ELSE Returns([ utxo |-> utxo, lovelace |-> 0, tokens |-> EmptyDict ],
                                << >>) ]

get_balances(env, self, address, exit) ==
    LET socket == check_socket_env_var(env)
        ran == run(self, << PyStr(<< "query" >>), PyStr(<< "utxo" >>),
                            PyStr(<< "--address" >>), address >> \o NET_ARG
                         \o << PyStr(<< "--output-json" >>) >>, PyNone, EmptyDict, exit)
        address_balances_json == json_loads(ran.result.stdout)
    IN  IF socket.status # "return" THEN [ started |-> << >>, outcome |-> socket ]
        ELSE [ started |-> << ran.process >>,
               outcome |->
                   IF ran.result.rc # 0
                   THEN Raises("BadCmd", << "error", "error", "error" >>)
                   ELSE IF address_balances_json.error
                   THEN Raises("ValueError", << "error" >>)
                   ELSE IF address_balances_json.value # EmptyDict
                   THEN Raises("TypeError", << >>)
                   ELSE Returns(EmptyDict, << >>) ]

get_stake_rewards(env, self, stake_addr, exit) ==
    LET socket == check_socket_env_var(env)
        ran == run(self, << PyStr(<< "query" >>), PyStr(<< "stake-address-info" >>),
                            PyStr(<< "--address" >>), stake_addr >> \o NET_ARG,
                   PyNone, EmptyDict, exit)
        balances_json == json_loads(ran.result.stdout)
    IN  IF socket.status # "return" THEN [ started |-> << >>, outcome |-> socket ]
        ELSE [ started |-> << ran.process >>,
               outcome |->
                   IF ran.result.rc # 0
                   THEN Raises("BadCmd", << "error", "error", "error" >>)
                   ELSE IF balances_json.error
                   THEN Raises("ValueError", << "error", "error" >>)
                   ELSE Returns(balances_json.value, << >>) ]

get_pool_stake_snapshot(env, self, pool_id, exit) ==
    LET socket == check_socket_env_var(env)
        ran == run(self, << PyStr(<< "query" >>), PyStr(<< "stake-snapshot" >>),
                            PyStr(<< "--stake-pool-id" >>), pool_id >> \o NET_ARG,
                   PyNone, EmptyDict, exit)
        output == json_loads(ran.result.stdout)
    IN  IF socket.status # "return" THEN [ started |-> << >>, outcome |-> socket ]
        ELSE [ started |-> << ran.process >>,
               outcome |->
                   IF ran.result.rc # 0
                   THEN Raises("BadCmd", << "error", "error", "error" >>)
                   ELSE IF output.error THEN Raises("ValueError", << "error" >>)
                   ELSE Returns(output.value, << >>) ]

get_pool_params(env, self, pool_id, exit) ==
    LET socket == check_socket_env_var(env)
        ran == run(self, << PyStr(<< "query" >>), PyStr(<< "pool-params" >>),
                            PyStr(<< "--stake-pool-id" >>), pool_id >> \o NET_ARG,
                   PyNone, EmptyDict, exit)
        output == json_loads(ran.result.stdout)
    IN  IF socket.status # "return" THEN [ started |-> << >>, outcome |-> socket ]
        ELSE [ started |-> << ran.process >>,
               outcome |->
                   IF ran.result.rc # 0
                   THEN Raises("BadCmd", << "error", "error", "error" >>)
                   ELSE IF output.error THEN Raises("ValueError", << "error" >>)
                   ELSE Returns(output.value, << >>) ]

\* get_tx_fee with the default counts; the output of the process is bytes,
\* which split only at bytes
get_tx_fee(env, self, protocol_fpath, cwd, exit) ==
    LET socket == check_socket_env_var(env)
        _protocol_fpath == check_file_exists(protocol_fpath)
        ran == run(self, << PyStr(<< "transaction" >>), PyStr(<< "calculate-min-fee" >>),
                            PyStr(<< "--tx-body-file" >>), PyStr(<< "tx.draft" >>),
                            PyStr(<< "--tx-in-count" >>), PyStr(str(PyInt(1))),
                            PyStr(<< "--tx-out-count" >>), PyInt(1),
                            PyStr(<< "--witness-count" >>), PyStr(str(PyInt(1))),
                            PyStr(<< "--byron-witness-count" >>), PyStr(str(PyInt(0))),
                            PyStr(<< "--protocol-params-file" >>), _protocol_fpath.value >>
                         \o NET_ARG, PyNone, [ cwd |-> cwd ], exit)
    IN  IF socket.status # "return" THEN [ started |-> << >>, outcome |-> socket ]
        ELSE IF _protocol_fpath.status # "return"
        THEN [ started |-> << >>, outcome |-> _protocol_fpath ]
        ELSE [ started |-> << ran.process >>,
               outcome |->
                   IF ran.result.rc # 0
                   THEN Raises("SystemExit", << "error", "error", "error" >>)
                   ELSE IF ran.result.stdout.type # "str" THEN Raises("TypeError", << >>)
                   ELSE LET word == Split(ran.result.stdout.chars, Space)[1]
                        IN  IF word # << >> /\ \A i \in 1..Len(word) :
                                                 word[i] \in Range(SubSeq(HexDigits, 1, 10))
                            THEN Returns([ type |-> "int", digits |-> word ], << >>)
                            ELSE Raises("ValueError", << >>) ]

\* get_tx_id(tx_file), when its process ends with exit
get_tx_id(self, tx_file, exit) ==
    LET found == check_file_exists(tx_file)
        ran == run(self, << PyStr(<< "transaction" >>), PyStr(<< "txid" >>),
                            PyStr(<< "--tx-file" >>), tx_file.fpath >>,
                   PyNone, EmptyDict, exit)
    IN  IF found.status # "return" THEN [ started |-> << >>, outcome |-> found ]
        ELSE [ started |-> << ran.process >>,
               outcome |->
                   IF ran.result.rc # 0
                   THEN Raises("SystemExit", << "error", "error", "error" >>)
                   ELSE Returns([ ran.result.stdout EXCEPT !.chars = Strip(@) ], << >>) ]

\* submit_tx, when the process of the submission ends with exit and that
\* of get_tx_id with id_exit
submit_tx(env, self, signed_tx_f, cwd, exit, id_exit) ==
    LET socket == check_socket_env_var(env)
        _signed_tx_f == check_file_exists(signed_tx_f)
        ran == run(self, << PyStr(<< "transaction" >>), PyStr(<< "submit" >>),
                            PyStr(<< "--tx-file" >>), _signed_tx_f.value >> \o NET_ARG,
                   PyNone, [ cwd |-> cwd ], exit)
        tx_id == get_tx_id(self, signed_tx_f, id_exit)
    IN  IF socket.status # "return" THEN [ started |-> << >>, outcome |-> socket ]
        ELSE IF _signed_tx_f.status # "return"
        THEN [ started |-> << >>, outcome |-> _signed_tx_f ]
        ELSE IF ran.result.rc # 0
        THEN [ started |-> << ran.process >>,
               outcome |-> Raises("SystemExit", << "error", "error", "error" >>) ]
        ELSE [ started |-> << ran.process >> \o tx_id.started,
               outcome |-> IF tx_id.outcome.status # "return" THEN tx_id.outcome
                           ELSE Returns([ type |-> "bool", bool |-> TRUE ], << "info" >>) ]

\* the largest numAssets and numPIDs the rounding is applied to on its own
MaxCount == 3

(***************************************************************************)
(* tx.py: build_tx                                                         *)
(***************************************************************************)
MaxOuts == 2

eras_args ==
    { PyStr(<< >>), PyNone, PyStr(<< "--byron-era" >>), PyStr(<< "--shelley-era" >>),
      PyStr(<< "--allegra-era" >>), PyStr(<< "--mary-era" >>),
      PyStr(<< "--alonzo-era" >>), PyStr(<< "--babbage-era" >>) }

\* " ".join(["<flag> {}".format(item) for item in items])
flag_args(flag, items) ==
    IF items = << >> THEN << >>
    ELSE JoinAssets([ i \in 1..Len(items) |-> << flag, Space >> \o items[i] ], << Space >>)

\* the keyword arguments build_tx is called without
BuildDefaults ==
    [ fee |-> PyInt(0), invalid_hereafter |-> PyNone, invalid_before |-> PyNone,
      withdrawal |-> PyNone, certs |-> PyNone, mint |-> PyNone,
      minting_script_file |-> PyNone, metadata_file |-> PyNone, era_arg |-> PyNone,
      extra_args |-> PyNone, draft |-> TRUE, cwd |-> PyNone ]

\* the call with the keyword arguments in options, when the process it may
\* start ends with exit: the processes started and how the call ends
build_tx(self, tx_in_list, tx_out_list, options, exit) ==
    LET era_arg == IF Truthy(options.era_arg) THEN options.era_arg.chars ELSE << >>
        tx_in_args == flag_args("--tx-in", tx_in_list)
        tx_out_args == flag_args("--tx-out", tx_out_list)
        certs_args ==
            IF options.certs = PyNone THEN << >>
            ELSE flag_args("--certificate-file",
                           [ i \in 1..Len(options.certs.items) |-> str(options.certs.items[i]) ])
        withdrawal_args ==
            IF Truthy(options.withdrawal)
            THEN << "--withdrawal", Space >> \o options.withdrawal.chars ELSE << >>
        invalid_hereafter_arg ==
            IF options.invalid_hereafter # PyNone
            THEN << "--invalid-hereafter", Space >> \o str(options.invalid_hereafter)
            ELSE << >>
        invalid_before_arg ==
            IF options.invalid_before # PyNone
            THEN << "--invalid-before", Space >> \o str(options.invalid_before)
            ELSE << >>
        _extra_args == IF Truthy(options.extra_args) THEN options.extra_args.chars ELSE << >>
        with_mint == Truthy(options.mint)
        with_script == options.minting_script_file # PyNone
        with_metadata == options.metadata_file # PyNone
        minting_args ==
            IF with_mint /\ with_script
            THEN << "--mint=", Quote >> \o options.mint.chars
                    \o << Quote, Space, "--minting-script-file", Space >>
                    \o options.minting_script_file.fpath.chars
            ELSE << >>
        metadata_json_file_arg ==
            IF with_metadata
            THEN << "--metadata-json-file", Space >> \o options.metadata_file.fpath.chars
            ELSE << >>
        args == FilterNone(<< << "transaction" >>, << "build-raw" >>, era_arg >>
                    \o Split(tx_in_args, Space) \o Split(tx_out_args, Space)
                    \o Split(invalid_hereafter_arg, Space)
                    \o Split(invalid_before_arg, Space)
                    \o << << "--fee" >>, str(options.fee), << "--out-file" >>,
                          << "tx.draft" >> >>
                    \o Split(certs_args, Space) \o Split(withdrawal_args, Space)
                    \o Split(minting_args, Space) \o Split(metadata_json_file_arg, Space)
                    \o Split(_extra_args, Space))
        ran == run(self, [ i \in 1..Len(args) |-> PyStr(args[i]) ], PyNone,
                   [ cwd |-> options.cwd ], exit)
        none == << >>
    IN  IF options.era_arg \notin eras_args
        THEN [ started |-> none, outcome |-> Raises("SystemExit", << "error", "error" >>) ]
        ELSE IF options.certs # PyNone /\ options.certs.type # "list"
        THEN [ started |-> none, outcome |-> Raises("SystemExit", << "error", "error" >>) ]
        ELSE IF with_mint /\ with_script
                   /\ check_file_exists(options.minting_script_file).status # "return"
        THEN [ started |-> none, outcome |-> Raises("FileNotFoundError", << "error" >>) ]
        ELSE IF with_mint # with_script
        THEN [ started |-> none, outcome |-> Raises("SystemExit", << "error" >>) ]
        ELSE IF with_metadata /\ check_file_exists(options.metadata_file).status # "return"
        THEN [ started |-> none,
               outcome |-> Raises("FileNotFoundError", << "info", "error" >>) ]
        ELSE IF options.certs # PyNone /\ options.certs.items = << >>
        THEN [ started |-> none,
               outcome |-> Raises("UnboundLocalError",
                                  IF with_metadata THEN << "info" >>
                                  ELSE << >>) ]
        ELSE [ started |-> << ran.process >>,
               outcome |->
                   LET log == IF with_metadata THEN << "info" >> ELSE << >>
                   IN  IF ran.result.rc # 0
                       THEN Raises("SystemExit", log \o << "error", "error", "error" >>)
                       ELSE Returns(PyStr(str(options.cwd) \o << "/" >> \o << "tx.draft" >>),
                                    log) ]

\* output descriptors of the documented forms: address+lovelace, and
\* address+lovelace+"quantity policyid.assetname + ..." with one and two assets
TxOuts ==
    { FormatTxOut(<< >>, FALSE),
      FormatTxOut(<< Asset(<<"1">>, Policy1, TRUE, NameOdd) >>, TRUE),
      FormatTxOut(<< Asset(<<"1">>, Policy1, TRUE, NameOdd),
                     Asset(<<"2">>, Policy2, TRUE, NameOdd) >>, TRUE) }

\* the keyword arguments of the model's calls: none, and one call for each
\* branch they select
BuildOptions ==
    { BuildDefaults,
      [ BuildDefaults EXCEPT !.era_arg = PyStr(<< "--babbage-era" >>), !.fee = PyInt(170) ],
      [ BuildDefaults EXCEPT !.era_arg = PyStr(<< "--conway-era" >>) ],
      [ BuildDefaults EXCEPT !.invalid_hereafter = PyInt(500), !.invalid_before = PyInt(0) ],
      [ BuildDefaults EXCEPT !.withdrawal = PyStr(<< "stake", Plus, "5" >>),
                             !.extra_args = PyStr(<< "--cddl-format" >>) ],
      [ BuildDefaults EXCEPT !.certs = PyList(<< PyStr(<< "pool.cert" >>),
                                                 PyStr(<< "deleg.cert" >>) >>) ],
      [ BuildDefaults EXCEPT !.certs = PyList(<< >>) ],
      [ BuildDefaults EXCEPT !.certs = PyStr(<< "pool.cert" >>) ],
      [ BuildDefaults EXCEPT !.mint = PyStr(<< "1", Space, "aa.6162" >>) ],
      [ BuildDefaults EXCEPT !.metadata_file = [ fpath |-> PyStr(<< "meta.json" >>),
                                                 exists |-> TRUE ] ] }
      \cup { [ BuildDefaults EXCEPT !.mint = mint, !.minting_script_file = file ] :
               mint \in { PyNone, PyStr(<< "1", Space, "aa.6162" >>) },
               file \in Files(<< "policy.script" >>) }
      \cup { [ BuildDefaults EXCEPT !.metadata_file = file ] : file \in Files(<< "meta.json" >>) }
(***************************************************************************)
(* The library's calls.  A function without a loop is one step; a call     *)
(* that has ended leaves its arguments and its outcome in frame.            *)
(***************************************************************************)
MinUtxoAtRest ==
    /\ bundle = << >>
    /\ quoted = FALSE
    /\ tx_out = FormatTxOut(<< >>, FALSE)
    /\ protocol_file = CHOOSE f \in ProtocolFiles : ~ f.exists
    /\ hex_name = FALSE
    /\ era = "mary"
    /\ names = << >>
    /\ result = Pending
    /\ rel = "none"
    /\ prev = NoCall

MinUtxoUnchanged ==
    UNCHANGED << bundle, quoted, tx_out, protocol_file, hex_name, era, names,
                 result, rel, prev >>

\* a call of a function that runs no process and reads no clock
PureCall(arguments, outcome) ==
    /\ frame = Idle
    /\ frame' = arguments @@ outcome
    /\ UNCHANGED << environ, cardano_cli, processes, clock, earlier >>
    /\ MinUtxoUnchanged

Call_h2a ==
    \E hex_s \in HexStrings :
        PureCall([ fn |-> "h2a", hex_s |-> hex_s ], h2a(hex_s))

Call_get_utxo_with_enough_balance ==
    \E utxos_map \in UtxosMaps : \E amount \in { 5, 6 } :
        PureCall([ fn |-> "get_utxo_with_enough_balance",
                   utxos_map |-> utxos_map, amount |-> amount ],
                 get_utxo_with_enough_balance(utxos_map, amount))

Call_combine_utxo_balance ==
    \E dicts \in UNION { [1..n -> BalanceDicts] : n \in 0..MaxDicts } :
        PureCall([ fn |-> "combine_utxo_balance", dicts |-> dicts ],
                 combine_utxo_balance(dicts))

\* the same dicts once more, passed in another order
Call_combine_utxo_balance_reordered ==
    /\ frame.fn = "combine_utxo_balance"
    /\ earlier = Idle
    /\ \E order \in IterOrders(1..Len(frame.dicts)) :
          LET dicts == [ i \in 1..Len(order) |-> frame.dicts[order[i]] ]
          IN  /\ dicts # frame.dicts
              /\ frame' = [ fn |-> "combine_utxo_balance", dicts |-> dicts ]
                              @@ combine_utxo_balance(dicts)
    /\ earlier' = frame
    /\ UNCHANGED << environ, cardano_cli, processes, clock >>
    /\ MinUtxoUnchanged

Call_net_arg ==
    \E net \in NetworkIds : PureCall([ fn |-> "net_arg", net |-> net ], net_arg(net))

Call_get_legacy_era_arg ==
    \E cardano_era \in CardanoEras : \E use_legacy_commands \in BOOLEAN :
        PureCall([ fn |-> "get_legacy_era_arg", cardano_era |-> cardano_era,
                   use_legacy_commands |-> use_legacy_commands ],
                 get_legacy_era_arg(cardano_era, use_legacy_commands))

\* a call of run itself
Call_run ==
    /\ frame = Idle
    /\ \E args \in RunArgs : \E cmd_group \in CmdGroups : \E exit \in Exits :
          LET ran == run(cardano_cli, args, cmd_group, EmptyDict, exit)
          IN  /\ processes' = Append(processes, ran.process)
              /\ frame' = [ fn |-> "run", args |-> args, cmd_group |-> cmd_group ]
                              @@ Returns(ran.result, << >>)
    /\ UNCHANGED << environ, cardano_cli, clock, earlier >>
    /\ MinUtxoUnchanged

\* the function of governance.py and its twin of certs.py
Call_generate_vote_delegation_cert ==
    /\ frame = Idle
    /\ \E module \in { "governance", "certs" } : \E cwd \in { PyNone, PyStr(<< "/tmp" >>) } :
       \E always_abstain, always_no_confidence \in BOOLEAN :
       \E drepid \in DrepIds : \E exit \in Exits :
          LET call == generate_vote_delegation_cert(cardano_cli,
                          PyStr(<< "stake.vkey" >>), PyStr(<< "vote.cert" >>), cwd,
                          always_abstain, always_no_confidence, drepid, exit)
          IN  /\ processes' = processes \o call.started
              /\ frame' = [ fn |-> "generate_vote_delegation_cert", module |-> module,
                            cwd |-> cwd, always_abstain |-> always_abstain,
                            always_no_confidence |-> always_no_confidence,
                            drepid |-> drepid ] @@ call.outcome
    /\ UNCHANGED << environ, cardano_cli, clock, earlier >>
    /\ MinUtxoUnchanged

Call_generate_pool_reg_cert ==
    /\ frame = Idle
    /\ \E owners_stake_vkeys_list \in OwnersLists : \E metadata_url \in MetadataUrls :
       \E relay_port \in { PyInt(3001), PyInt(6000) } :
       \E relays_ipv4_list \in RelaysLists({ PyStr(<< "10.0.0.1" >>), PyStr(<< "10.0.0.2" >>) }) :
       \E relays_dns_list \in RelaysLists({ PyStr(<< "relay.example" >>) }) :
       \E exit \in Exits :
          LET call == generate_pool_reg_cert(cardano_cli, owners_stake_vkeys_list,
                          metadata_url, relay_port, relays_ipv4_list, relays_dns_list,
                          PyNone, exit)
          IN  /\ processes' = processes \o call.started
              /\ frame' = [ fn |-> "generate_pool_reg_cert",
                            owners_stake_vkeys_list |-> owners_stake_vkeys_list,
                            metadata_url |-> metadata_url, relay_port |-> relay_port,
                            relays_ipv4_list |-> relays_ipv4_list,
                            relays_dns_list |-> relays_dns_list ] @@ call.outcome
    /\ UNCHANGED << environ, cardano_cli, clock, earlier >>
    /\ MinUtxoUnchanged

Call_build_tx ==
    /\ frame = Idle
    /\ \E tx_out_list \in UNION { [1..n -> TxOuts] : n \in 1..MaxOuts } :
       \E options \in BuildOptions : \E exit \in Exits :
          LET call == build_tx(cardano_cli, << << "tx1", "#", "0" >> >>, tx_out_list,
                               options, exit)
          IN  /\ processes' = processes \o call.started
              /\ frame' = [ fn |-> "build_tx", tx_out_list |-> tx_out_list,
                            options |-> options ] @@ call.outcome
    /\ UNCHANGED << environ, cardano_cli, clock, earlier >>
    /\ MinUtxoUnchanged

\* the word rounding of min_utxo_math on its own, for every small count
Call_roundupBytesToWords ==
    \E nAssets, nPIDs \in 0..MaxCount : \E sumLengths \in 0..(k4 * MaxCount) :
        PureCall([ fn |-> "roundupBytesToWords", numAssets |-> nAssets,
                   sumAssetNameLengths |-> sumLengths, numPIDs |-> nPIDs ],
                 Returns(PyInt(roundupBytesToWords(nAssets, sumLengths, nPIDs)), << >>))

\* get_current_tip is entered: the statements before the loop
Call_get_current_tip ==
    /\ frame = Idle
    /\ \E item \in { "slot", "all", "era" } : \E retries \in 0..MaxRetries :
       \E return_json \in BOOLEAN :
          frame' = [ fn |-> "get_current_tip", item |-> item, retries |-> retries,
                     return_json |-> return_json, _retries |-> retries,
                     exec_success |-> FALSE, result |-> EmptyDict,
                     status |-> "running", value |-> PyNone, log |-> << >> ]
    /\ UNCHANGED << environ, cardano_cli, processes, clock, earlier >>
    /\ MinUtxoUnchanged

\* one pass of its loop: the CLI is invoked and its exit handled; after a
\* MuxError the call sleeps three seconds
get_current_tip_loop ==
    /\ frame.fn = "get_current_tip" /\ frame.status = "running"
    /\ ~ frame.exec_success /\ frame._retries > 0
    /\ \E exit \in Exits :
          LET ran == run(cardano_cli, << PyStr(<< "query" >>), PyStr(<< "tip" >>),
                                        PyStr(<< "--mainnet" >>) >>,
                         PyNone, EmptyDict, exit)
          IN  /\ processes' = Append(processes, ran.process)
              /\ frame' = tip_loop_body(frame, ran.result)
              /\ clock' = IF frame'.status = "running" /\ ~ frame'.exec_success
                          THEN clock + 3 ELSE clock
    /\ UNCHANGED << environ, cardano_cli, earlier >>
    /\ MinUtxoUnchanged

\* the loop is left: the output is parsed and the item returned
get_current_tip_return ==
    /\ frame.fn = "get_current_tip" /\ frame.status = "running"
    /\ frame.exec_success \/ frame._retries <= 0
    /\ frame' = tip_after_loop(frame)
    /\ UNCHANGED << environ, cardano_cli, processes, clock, earlier >>
    /\ MinUtxoUnchanged

\* wait_for_tx is entered: start = timer(), end = 0
Call_wait_for_tx ==
    /\ frame = Idle
    /\ \E tx_id \in { << "tx1" >>, << "tx3" >> } : \E timeout \in 0..MaxTimeout :
          frame' = [ fn |-> "wait_for_tx", tx_id |-> tx_id, timeout |-> timeout,
                     start |-> clock, end |-> 0, tx_arrived |-> FALSE,
                     timeouted |-> FALSE, polled |-> << >>,
                     status |-> "running", value |-> PyNone, log |-> << >> ]
    /\ UNCHANGED << environ, cardano_cli, processes, clock, earlier >>
    /\ MinUtxoUnchanged

\* one pass of its loop: the timeout check and, if it lets the loop go
\* on, a balance query (one process) and a second of sleep
wait_for_tx_loop ==
    /\ frame.fn = "wait_for_tx" /\ frame.status = "running"
    /\ \E utxos \in UtxosMaps : \E passed \in { 1, 2 } :
          /\ frame' = wait_loop_body(frame, clock, utxos, passed)
          /\ IF frame'.timeouted
             THEN UNCHANGED << processes, clock >>
             ELSE /\ processes' = Append(processes,
                        run(cardano_cli,
                            << PyStr(<< "query" >>), PyStr(<< "utxo" >>),
                               PyStr(<< "--address" >>), PyStr(<< "addr" >>),
                               PyStr(<< "--mainnet" >>), PyStr(<< "--output-json" >>) >>,
                            PyNone, EmptyDict,
                            [ rc |-> 0, stdout |-> PyBytes(<< "{}" >>),
                              stderr |-> PyBytes(<< >>) ]).process)
                  /\ clock' = IF frame'.tx_arrived THEN clock ELSE clock + passed
    /\ UNCHANGED << environ, cardano_cli, earlier >>
    /\ MinUtxoUnchanged

InitLibrary ==
    /\ MinUtxoAtRest
    /\ cardano_cli \in CardanoClis
    /\ processes = << >>
    /\ clock \in { 1, 2 }
    /\ frame = Idle
    /\ earlier = Idle
    /\ environ = [ CARDANO_NODE_SOCKET_PATH |-> PyStr(<< "node.socket" >>), exists |-> TRUE ]

NextLibrary ==
    \/ Call_h2a
    \/ Call_get_utxo_with_enough_balance
    \/ Call_combine_utxo_balance
    \/ Call_combine_utxo_balance_reordered
    \/ Call_net_arg
    \/ Call_get_legacy_era_arg
    \/ Call_run
    \/ Call_generate_vote_delegation_cert
    \/ Call_generate_pool_reg_cert
    \/ Call_roundupBytesToWords
    \/ Call_build_tx
    \/ Call_get_current_tip
    \/ get_current_tip_loop
    \/ get_current_tip_return
    \/ Call_wait_for_tx
    \/ wait_for_tx_loop

SpecLibrary == InitLibrary /\ [][NextLibrary]_vars


(***************************************************************************)
(* The operations that talk to the node, called in every environment.      *)
(***************************************************************************)
\* a call that runs to its end in one step: the processes it started are
\* appended and its outcome is left in frame
OnlineCall(arguments, call) ==
    /\ frame = Idle
    /\ processes' = processes \o call.started
    /\ frame' = arguments @@ call.outcome
    /\ UNCHANGED << environ, cardano_cli, clock, earlier >>
    /\ MinUtxoUnchanged

Call_get_protocol_params ==
    \E exit \in QueryExits :
        OnlineCall([ fn |-> "get_protocol_params" ],
                   get_protocol_params(environ, cardano_cli, exit))

Call_query_utxo ==
    \E utxo \in Utxos : \E exit \in QueryExits :
        OnlineCall([ fn |-> "query_utxo", utxo |-> utxo ],
                   query_utxo(environ, cardano_cli, utxo, exit))

Call_get_balances ==
    \E exit \in QueryExits :
        OnlineCall([ fn |-> "get_balances", address |-> PyStr(<< "addr" >>) ],
                   get_balances(environ, cardano_cli, PyStr(<< "addr" >>), exit))

Call_get_stake_rewards ==
    \E exit \in QueryExits :
        OnlineCall([ fn |-> "get_stake_rewards", stake_addr |-> PyStr(<< "stake" >>) ],
                   get_stake_rewards(environ, cardano_cli, PyStr(<< "stake" >>), exit))

Call_get_pool_stake_snapshot ==
    \E exit \in QueryExits :
        OnlineCall([ fn |-> "get_pool_stake_snapshot", pool_id |-> PyStr(<< "pool" >>) ],
                   get_pool_stake_snapshot(environ, cardano_cli, PyStr(<< "pool" >>), exit))

Call_get_pool_params ==
    \E exit \in QueryExits :
        OnlineCall([ fn |-> "get_pool_params", pool_id |-> PyStr(<< "pool" >>) ],
                   get_pool_params(environ, cardano_cli, PyStr(<< "pool" >>), exit))

Call_get_tx_fee ==
    \E protocol_fpath \in Files(<< "protocol.json" >>) : \E exit \in Exits :
        OnlineCall([ fn |-> "get_tx_fee", protocol_fpath |-> protocol_fpath ],
                   get_tx_fee(environ, cardano_cli, protocol_fpath, PyNone, exit))

Call_submit_tx ==
    \E signed_tx_f \in Files(<< "tx.signed" >>) : \E exit, id_exit \in Exits :
        OnlineCall([ fn |-> "submit_tx", signed_tx_f |-> signed_tx_f ],
                   submit_tx(environ, cardano_cli, signed_tx_f, PyNone, exit, id_exit))

InitOnline ==
    /\ MinUtxoAtRest
    /\ cardano_cli \in CardanoClis
    /\ processes = << >>
    /\ clock = 1
    /\ frame = Idle
    /\ earlier = Idle
    /\ environ \in Environs

NextOnline ==
    \/ Call_get_protocol_params
    \/ Call_query_utxo
    \/ Call_get_balances
    \/ Call_get_stake_rewards
    \/ Call_get_current_tip
    \/ get_current_tip_loop
    \/ get_current_tip_return
    \/ Call_get_pool_stake_snapshot
    \/ Call_get_pool_params
    \/ Call_get_tx_fee
    \/ Call_submit_tx

SpecOnline == InitOnline /\ [][NextOnline]_vars
(***************************************************************************)
(* Claims about the rest of the library.                                   *)
(***************************************************************************)
\* C11: h2a on a hex string with an odd number of characters logs a
\* warning and still returns a decoded string instead of raising
C11_OddLengthHexIsDecoded ==
    (frame.fn = "h2a" /\ Len(frame.hex_s) % 2 # 0)
        => (frame.log = << "warning" >> /\ frame.status = "return")

\* the keys of the map in frame whose balance is at least the amount asked
EnoughBalance ==
    { frame.utxos_map[i].utxo : i \in
        { j \in 1..Len(frame.utxos_map) :
            frame.utxos_map[j].lovelace >= frame.amount } }

\* C15: for any UTXO map, get_utxo_with_enough_balance returns a key whose
\* lovelace is at least amount whenever such a key exists, and returns None
\* whenever no UTXO of the map has lovelace of at least amount
C15_ReturnsEnoughOrNone ==
    frame.fn = "get_utxo_with_enough_balance" =>
        /\ frame.status = "return"
        /\ IF EnoughBalance = {} THEN frame.value = PyNone
           ELSE frame.value \in { PyStr(u) : u \in EnoughBalance }

\* the (policy, token) pairs of a balance dict, and what it holds of one
TokenPairs(d) ==
    IF "tokens" \in DOMAIN d
    THEN UNION { { << p, t >> : t \in DOMAIN d.tokens[p] } : p \in DOMAIN d.tokens }
    ELSE {}

AmountIn(d, pair) == IF pair \in TokenPairs(d) THEN d.tokens[pair[1]][pair[2]] ELSE 0

LovelaceIn(d) == IF "lovelace" \in DOMAIN d THEN d.lovelace ELSE 0

RECURSIVE SumOver(_, _, _)
SumOver(dicts, Amount(_, _), pair) ==
    IF dicts = << >> THEN 0
    ELSE Amount(Head(dicts), pair) + SumOver(Tail(dicts), Amount, pair)

LovelaceOnly(d, pair) == LovelaceIn(d)

\* C16: combine_utxo_balance returns the sum of the inputs' lovelace and,
\* for exactly the (policy, token) pairs present in some input, the sum of
\* that token's amounts over all inputs; the same inputs in another order
\* give the same result
C16_CombineSumsEveryToken ==
    frame.fn = "combine_utxo_balance" =>
        /\ frame.status = "return"
        /\ frame.value.lovelace = SumOver(frame.dicts, LovelaceOnly, << >>)
        /\ TokenPairs(frame.value)
             = UNION { TokenPairs(frame.dicts[i]) : i \in 1..Len(frame.dicts) }
        /\ \A pair \in TokenPairs(frame.value) :
              AmountIn(frame.value, pair) = SumOver(frame.dicts, AmountIn, pair)
        /\ earlier # Idle => frame.value = earlier.value

C16_Witness ==
    /\ frame.fn = "combine_utxo_balance"
    /\ earlier # Idle
    /\ frame.value.lovelace = 7
    /\ \E pair \in TokenPairs(frame.value) :
          /\ pair \in TokenPairs(frame.dicts[1]) \cap TokenPairs(frame.dicts[2])
          /\ AmountIn(frame.value, pair) = 4

\* C18: get_legacy_era_arg always returns a string: the empty string when
\* use_legacy_commands is false; with legacy commands, '--<era>-era' for the
\* eras byron, shelley, allegra, mary, alonzo, babbage in any case of
\* letters, '--babbage-era' when the era is the empty string or None, and
\* ValueError for any other era
C18_LegacyEraArgIsAString ==
    frame.fn = "get_legacy_era_arg" =>
        IF ~ frame.use_legacy_commands
        THEN frame.status = "return" /\ frame.value = PyStr(<< >>)
        ELSE IF frame.cardano_era \in { PyNone, PyStr(<< >>) }
        THEN /\ frame.status = "return"
             /\ frame.value = PyStr(<<"-","-","b","a","b","b","a","g","e","-","e","r","a">>)
        ELSE IF \E e \in Range(legacy_eras_list) : lower(frame.cardano_era.chars) = e
        THEN /\ frame.status = "return"
             /\ frame.value = PyStr(<<"-","-">> \o lower(frame.cardano_era.chars)
                                               \o <<"-","e","r","a">>)
        ELSE frame.status = "ValueError"

\* C20: net_arg maps 'mainnet' to ('--mainnet',), '1' to
\* ('--testnet-magic', 1) and '2' to ('--testnet-magic', 2), and raises
\* ValueError for every other input
C20_NetArgSelectsTheNetwork ==
    frame.fn = "net_arg" =>
        CASE frame.net = PyStr(<<"mainnet">>) ->
                 /\ frame.status = "return"
                 /\ frame.value = << PyStr(<<"--mainnet">>) >>
          [] frame.net = PyStr(<<"1">>) ->
                 /\ frame.status = "return"
                 /\ frame.value = << PyStr(<<"--testnet-magic">>), PyInt(1) >>
          [] frame.net = PyStr(<<"2">>) ->
                 /\ frame.status = "return"
                 /\ frame.value = << PyStr(<<"--testnet-magic">>), PyInt(2) >>
          [] OTHER -> frame.status = "ValueError"

C20_Witness ==
    /\ frame.fn = "net_arg"
    /\ frame.net = PyStr(<<"2">>)
    /\ frame.value = << PyStr(<<"--testnet-magic">>), PyInt(2) >>

\* the text of an argument of the model's commands
AsText(arg) ==
    IF arg.type = "str" THEN arg.chars
    ELSE IF arg.int = 1 THEN << "1" >> ELSE << "4", "2" >>

\* the command group the claim expects of the CardanoCLI object
ExpectedGroup(cmd_group) ==
    IF cmd_group \in { PyStr(<<"debug">>) } THEN cmd_group.chars
    ELSE IF cardano_cli.use_legacy_commands \/ cardano_cli.cardano_era = << >>
    THEN << "legacy" >>
    ELSE <<"c","o","n","w","a","y">>

\* C19: CardanoCLI.run builds the command [binary, group, arg1, ..., argN]
\* with exactly one command-group element: the explicit cmd_group if given,
\* else 'legacy' if use_legacy_commands is set or no era is configured, else
\* the lower-cased era; the arguments follow in their order, each converted
\* to a string, and rc, stdout and stderr returned are those of that single
\* process
C19_RunBuildsOneCommand ==
    frame.fn = "run" =>
        /\ Len(processes) = 1
        /\ frame.status = "return"
        /\ LET command == processes[1].command
           IN  /\ Len(command) = 2 + Len(frame.args)
               /\ command[1] = <<"cardano-cli">>
               /\ command[2] = ExpectedGroup(frame.cmd_group)
               /\ \A i \in 1..Len(frame.args) : command[2 + i] = AsText(frame.args[i])
        /\ frame.value.rc = processes[1].rc
        /\ frame.value.stdout = processes[1].stdout
        /\ frame.value.stderr = processes[1].stderr

C19_Witness ==
    /\ frame.fn = "run"
    /\ frame.cmd_group = PyStr(<<"debug">>)
    /\ cardano_cli.use_legacy_commands
    /\ processes[1].command
         = << <<"cardano-cli">>, <<"debug">>, <<"--testnet-magic">>, <<"4","2">>, <<"query">> >>
    /\ frame.value.rc = 1

\* the places of a command that name a delegation target
TargetsIn(command) ==
    { i \in 1..Len(command) :
        command[i] \in { << "--always-abstain" >>, << "--always-no-confidence" >>,
                         << "--drep-key-hash" >> } }

\* C17: generate_vote_delegation_cert passes exactly one delegation target
\* to the CLI, by the precedence always_abstain > always_no_confidence >
\* drepid; when none of the three is supplied it raises ValueError and the
\* CLI is not invoked
C17_OneDelegationTarget ==
    frame.fn = "generate_vote_delegation_cert" =>
        IF ~ frame.always_abstain /\ ~ frame.always_no_confidence
              /\ frame.drepid \in { PyNone, PyStr(<< >>) }
        THEN frame.status = "ValueError" /\ processes = << >>
        ELSE /\ Len(processes) = 1
             /\ \E i \in 1..Len(processes[1].command) :
                   LET command == processes[1].command
                   IN  /\ TargetsIn(command) = { i }
                       /\ IF frame.always_abstain
                          THEN command[i] = << "--always-abstain" >>
                          ELSE IF frame.always_no_confidence
                          THEN command[i] = << "--always-no-confidence" >>
                          ELSE /\ command[i] = << "--drep-key-hash" >>
                               /\ command[i + 1] = << "drep1" >>
                       /\ (frame.always_abstain \/ frame.always_no_confidence)
                             => << "drep1" >> \notin Range(command)

C17_Witness ==
    /\ frame.fn = "generate_vote_delegation_cert"
    /\ ~ frame.always_abstain /\ frame.always_no_confidence
    /\ frame.drepid = PyStr(<< "drep1" >>)
    /\ Len(processes) = 1
    /\ << "--always-no-confidence" >> \in Range(processes[1].command)
    /\ frame.status = "return"

\* how an invocation of the CLI ended, as the claims name it
Failed(process) == process.rc # 0

MuxFailure(process) ==
    /\ Failed(process)
    /\ Strip(process.stderr.chars) # << >>
    /\ Strip(process.stderr.chars)[1] = "MuxError"

RefusedFailure(process) ==
    Failed(process) /\ Strip(process.stderr.chars) = ConnectionRefused

\* C12: get_current_tip(retries=n) invokes the CLI at most n times,
\* re-invokes only after a failed invocation whose stderr starts with
\* 'MuxError', stops at the first invocation with exit code 0, raises
\* NodeDown at once on the connection-refused message and BadCmd at once on
\* any other failure
C12_BoundedRetryLoop ==
    frame.fn = "get_current_tip" =>
        /\ Len(processes) <= frame.retries
        /\ \A i \in 1..(Len(processes) - 1) : MuxFailure(processes[i])
        /\ processes # << >> =>
              LET last == processes[Len(processes)]
              IN  /\ RefusedFailure(last) => frame.status = "NodeDown"
                  /\ (Failed(last) /\ ~ RefusedFailure(last) /\ ~ MuxFailure(last))
                        => frame.status = "BadCmd"
                  /\ MuxFailure(last) => frame.status \notin { "NodeDown", "BadCmd", "TypeError" }

\* C13: whenever get_current_tip got no invocation with exit code 0 it
\* raises BadCmd, or NodeDown; a value is returned only when it was read
\* from the output of an invocation with exit code 0
C13_NoTipRaisesBadCmd ==
    (frame.fn = "get_current_tip" /\ frame.status # "running") =>
        IF \E i \in 1..Len(processes) : processes[i].rc = 0
        THEN frame.status = "return" =>
                \E i \in 1..Len(processes) :
                    /\ processes[i].rc = 0
                    /\ processes[i].stdout = frame.result.stdout
        ELSE frame.status \in { "BadCmd", "NodeDown" }

\* C14: wait_for_tx returns at the first poll in which some UTXO key under
\* the address has the hash tx_id, and otherwise stops polling, with a
\* timeout warning, at the first loop check where the time elapsed since
\* the call started is at least timeout; no balance query is issued after
\* that check
C14_NoQueryAfterTimeout ==
    frame.fn = "wait_for_tx" =>
        /\ \A i \in 1..Len(frame.polled) : frame.polled[i] < frame.timeout
        /\ Len(processes) = Len(frame.polled)
        /\ frame.tx_arrived => frame.status = "return" /\ ~ frame.timeouted
        /\ frame.timeouted =>
              /\ frame.status = "return"
              /\ frame.log = << "warning" >>
              /\ clock - frame.start >= frame.timeout


(***************************************************************************)
(* generate_pool_reg_cert                                                  *)
(***************************************************************************)
\* the relays of a relays argument: none when it is omitted
Supplied(relays_list) == IF relays_list = PyNone THEN << >> ELSE relays_list.items

\* the command has flag, the relay, --pool-relay-port and the port in a row
RelayPassed(command, flag, relay, relay_port) ==
    \E k \in 1..(Len(command) - 3) :
        /\ command[k] = << flag >>
        /\ command[k + 1] = relay.chars
        /\ command[k + 2] = << "--pool-relay-port" >>
        /\ command[k + 3] = str(relay_port)

NoRelays(f) == Supplied(f.relays_ipv4_list) = << >> /\ Supplied(f.relays_dns_list) = << >>

\* C21: generate_pool_reg_cert validates before the CLI: a metadata_url of
\* more than 64 characters raises ValueError, owners_stake_vkeys_list that
\* is not a list raises ValueError, no relay at all (both lists empty or
\* omitted) raises RuntimeError once the first two checks have passed, and
\* in each of these cases no process is started; otherwise one process is
\* started and its command has, for every supplied relay, the relay's flag,
\* the relay, --pool-relay-port and relay_port in a row, and as many
\* --pool-relay-port flags as relays.
C21_PoolRegCertValidatesFirst ==
    frame.fn = "generate_pool_reg_cert" =>
        LET long_url == Len(frame.metadata_url.chars) > 64
            no_list  == frame.owners_stake_vkeys_list.type # "list"
            ipv4     == Supplied(frame.relays_ipv4_list)
            dns      == Supplied(frame.relays_dns_list)
        IN  /\ long_url => frame.status = "ValueError" /\ processes = << >>
            /\ no_list => frame.status = "ValueError" /\ processes = << >>
            /\ NoRelays(frame) => /\ frame.status \in { "ValueError", "RuntimeError" }
                                  /\ processes = << >>
            /\ NoRelays(frame) /\ ~ long_url /\ ~ no_list => frame.status = "RuntimeError"
            /\ ~ long_url /\ ~ no_list /\ ~ NoRelays(frame) =>
                  /\ Len(processes) = 1
                  /\ frame.status \in { "return", "BadCmd" }
                  /\ \A i \in 1..Len(ipv4) :
                        RelayPassed(processes[1].command, "--pool-relay-ipv4", ipv4[i],
                                    frame.relay_port)
                  /\ \A i \in 1..Len(dns) :
                        RelayPassed(processes[1].command, "--single-host-pool-relay",
                                    dns[i], frame.relay_port)
                  /\ Len(SelectSeq(processes[1].command,
                                   LAMBDA arg : arg = << "--pool-relay-port" >>))
                        = Len(ipv4) + Len(dns)

\* a certificate made for two IPv4 relays and a DNS relay, with a
\* metadata_url of exactly 64 characters
C21_Witness ==
    /\ frame.fn = "generate_pool_reg_cert" /\ frame.status = "return"
    /\ Len(frame.metadata_url.chars) = 64
    /\ Len(Supplied(frame.relays_ipv4_list)) = 2
    /\ Len(Supplied(frame.relays_dns_list)) = 1
    /\ Len(processes) = 1

(***************************************************************************)
(* The socket check of the operations that need the node                   *)
(***************************************************************************)
\* the operations documented as requiring CARDANO_NODE_SOCKET_PATH
OnlineOperations ==
    { "get_protocol_params", "query_utxo", "get_balances", "get_stake_rewards",
      "get_current_tip", "get_pool_stake_snapshot", "get_pool_params", "get_tx_fee",
      "submit_tx" }

\* the variable is set, not empty, and names a path that exists
SocketUsable == Truthy(environ.CARDANO_NODE_SOCKET_PATH) /\ environ.exists

\* C22: every operation documented as requiring CARDANO_NODE_SOCKET_PATH
\* checks the variable before invoking the CLI: when it is unset, empty or
\* names a path that does not exist, no CLI process is started and the
\* operation ends by raising RuntimeError.
C22_SocketCheckedBeforeTheCli ==
    frame.fn \in OnlineOperations /\ ~ SocketUsable =>
        /\ processes = << >>
        /\ frame.status \in { "running", "RuntimeError" }

\* the same for the eight operations other than get_current_tip
C22_SocketCheckedByTheOthers ==
    frame.fn \in OnlineOperations \ { "get_current_tip" } /\ ~ SocketUsable =>
        /\ processes = << >>
        /\ frame.status = "RuntimeError"

(***************************************************************************)
(* The word rounding of min_utxo_math                                      *)
(***************************************************************************)
\* b = numAssets*12 + sumAssetNameLengths + numPIDs*28 of the call in frame
ByteCount == frame.numAssets * 12 + frame.sumAssetNameLengths + frame.numPIDs * 28

\* C23: the word rounding of min_utxo_math rounds up to whole 8-byte words
\* with no off-by-one: for every byte count b = numAssets*12 +
\* sumAssetNameLengths + numPIDs*28, roundupBytesToWords is
\* floor((b + 7) / 8), the least integer w with 8*w >= b.
C23_RoundsUpToWholeWords ==
    frame.fn = "roundupBytesToWords" =>
        LET w == frame.value.int
        IN  /\ w = (ByteCount + 7) \div 8
            /\ 8 * w >= ByteCount
            /\ \A v \in 0..(w - 1) : 8 * v < ByteCount

\* a byte count one over a multiple of 8: 12 + 28 + 1 = 41 bytes, 6 words
C23_Witness ==
    /\ frame.fn = "roundupBytesToWords"
    /\ ByteCount = 41 /\ frame.value.int = 6

\* and a byte count that is a multiple of 8: 12 + 28 = 40 bytes, 5 words
C23_WitnessExact ==
    /\ frame.fn = "roundupBytesToWords"
    /\ ByteCount = 40 /\ frame.value.int = 5

(***************************************************************************)
(* build_tx                                                                *)
(***************************************************************************)
\* the command has --tx-out and, right after it, the argument tx_out_dst
PassedAsOne(command, tx_out_dst) ==
    \E k \in 1..(Len(command) - 1) :
        command[k] = << "--tx-out" >> /\ command[k + 1] = tx_out_dst

\* C24: build_tx passes each element of tx_out_list to the CLI as exactly
\* one argument immediately following its own --tx-out flag, for every
\* output descriptor of the documented form, multi-asset descriptors that
\* contain spaces included: the command holds one --tx-out for each element.
C24_EachTxOutIsOneArgument ==
    frame.fn = "build_tx" /\ processes # << >> =>
        /\ \A i \in 1..Len(frame.tx_out_list) :
              PassedAsOne(processes[1].command, frame.tx_out_list[i])
        /\ Len(SelectSeq(processes[1].command, LAMBDA arg : arg = << "--tx-out" >>))
              = Len(frame.tx_out_list)

\* the same for the descriptors that hold no space
C24_HoldsWithoutSpaces ==
    /\ frame.fn = "build_tx" /\ processes # << >>
    /\ \A i \in 1..Len(frame.tx_out_list) : Space \notin Range(frame.tx_out_list[i])
    => /\ \A i \in 1..Len(frame.tx_out_list) :
              PassedAsOne(processes[1].command, frame.tx_out_list[i])
       /\ Len(SelectSeq(processes[1].command, LAMBDA arg : arg = << "--tx-out" >>))
              = Len(frame.tx_out_list)
=============================================================================
